---- MODULE Spec2Model ----
(***************************************************************************)
(* Bank-statement import of meudinheiro: the batch reconciler              *)
(* (importLedgerEntries / importAccountBalances) against the per-user      *)
(* Firestore collections, the CSV / OFX statement parsers, the import      *)
(* page and the generation of entries from recurring rules.                *)
(***************************************************************************)
EXTENDS Integers, Naturals, Sequences, FiniteSets, TLC

(* ---------------------------------------------------------------------- *)
(* Bounds of the model                                                     *)
(* ---------------------------------------------------------------------- *)
MaxHash == 2
MaxLen == 2
MaxRuns == 2
MaxBatches == 1

(* ---------------------------------------------------------------------- *)
(* Program constants                                                       *)
(* ---------------------------------------------------------------------- *)
BATCH_SIZE == 30
WRITE_BATCH_SIZE == 500

Procs == {"p1", "p2"}
Users == {"u1", "u2"}
Accounts == {"A", "B"}
Kinds == {"ledgerEntries", "accountBalances"}
Cols == Users \X Kinds

Min(a, b) == IF a < b THEN a ELSE b
Max(a, b) == IF a < b THEN b ELSE a

RangeOf(s) == {s[k] : k \in 1..Len(s)}

(* slice taken with its end index inclusive *)
slice_inclusive(s, start, end) == SubSeq(s, start + 1, Min(end + 1, Len(s)))

(* Array.prototype.slice(start, end) on 0-based indices, end exclusive *)
slice(s, start, end) == SubSeq(s, start + 1, Min(end, Len(s)))

(* ---------------------------------------------------------------------- *)
(* Parsed records handed to the reconciler                                 *)
(* ---------------------------------------------------------------------- *)
Tx(h) ==
  [ date |-> h, description |-> "d", amountCents |-> 100 * h,
    type |-> IF h % 2 = 0 THEN "income" ELSE "expense", importHash |-> h ]

Bal(h) == [ date |-> h, balanceCents |-> 100 * h, importHash |-> h ]

Item(kind, h) == IF kind = "ledgerEntries" THEN Tx(h) ELSE Bal(h)

RECURSIVE SeqsUpTo(_, _)
SeqsUpTo(S, n) ==
  IF n = 0 THEN {<<>>}
  ELSE LET shorter == SeqsUpTo(S, n - 1)
       IN  shorter \cup {Append(s, x) : s \in {t \in shorter : Len(t) = n - 1}, x \in S}

SmallHashLists == SeqsUpTo(1..MaxHash, MaxLen)

(* lengths around the two batch limits *)
BulkLens ==
  {BATCH_SIZE - 1, BATCH_SIZE, BATCH_SIZE + 1, 2 * BATCH_SIZE + 1}
  \cup {MaxBatches * WRITE_BATCH_SIZE + d : d \in {0, 1}}

BulkHashLists == {[k \in 1..n |-> k] : n \in BulkLens}

ItemsOf(kind, hs) == [k \in 1..Len(hs) |-> Item(kind, hs[k])]

(* ---------------------------------------------------------------------- *)
(* Strings (JavaScript strings, one character per position)               *)
(* ---------------------------------------------------------------------- *)
(* s.substring(a - 1, b): the characters a..b that s has *)
(* const v = ...; body: body with v bound to the value computed once *)
Bind(v, F(_)) == F(v)

Sub(s, a, b) ==
  IF a > b \/ a > Len(s) \/ b < 1 THEN "" ELSE SubSeq(s, Max(a, 1), Min(b, Len(s)))

Ch(s, k) == Sub(s, k, k)

Digits == {"0", "1", "2", "3", "4", "5", "6", "7", "8", "9"}

DigitVal(c) ==
  CASE c = "0" -> 0 [] c = "1" -> 1 [] c = "2" -> 2 [] c = "3" -> 3 [] c = "4" -> 4
    [] c = "5" -> 5 [] c = "6" -> 6 [] c = "7" -> 7 [] c = "8" -> 8 [] c = "9" -> 9

WhiteSpace == {" ", "\t", "\n", "\r"}

Letters ==
  {"a", "b", "c", "d", "e", "f", "g", "h", "i", "j", "k", "l", "m", "n", "o", "p", "q",
   "r", "s", "t", "u", "v", "w", "x", "y", "z",
   "A", "B", "C", "D", "E", "F", "G", "H", "I", "J", "K", "L", "M", "N", "O", "P", "Q",
   "R", "S", "T", "U", "V", "W", "X", "Y", "Z"}

WordChars == Letters \cup Digits \cup {"_"}

(* number of digit characters of s from position k on *)
DigitsRun(s, k) ==
  LET F[j \in k..(Len(s) + 1)] ==
        IF j > Len(s) \/ Ch(s, j) \notin Digits THEN 0 ELSE 1 + F[j + 1]
  IN  IF k > Len(s) THEN 0 ELSE F[k]

(* value of a string of digits *)
ToInt(ds) ==
  LET F[j \in 0..Len(ds)] == IF j = 0 THEN 0 ELSE 10 * F[j - 1] + DigitVal(Ch(ds, j))
  IN  F[Len(ds)]

Pow10(n) ==
  LET F[j \in 0..n] == IF j = 0 THEN 1 ELSE 10 * F[j - 1]
  IN  F[n]

(* s.replace(/[set]/g, '') *)
RemoveAll(s, set) ==
  LET F[j \in 0..Len(s)] ==
        IF j = 0 THEN ""
        ELSE IF Ch(s, j) \in set THEN F[j - 1] ELSE F[j - 1] \o Ch(s, j)
  IN  F[Len(s)]

(* position of the first c in s, 0 when there is none *)
IndexOf(s, c) ==
  LET F[j \in 1..(Len(s) + 1)] ==
        IF j > Len(s) THEN 0 ELSE IF Ch(s, j) = c THEN j ELSE F[j + 1]
  IN  F[1]

(* s.replace(c, d): the first occurrence only *)
ReplaceFirst(s, c, d) ==
  LET k == IndexOf(s, c)
  IN  IF k = 0 THEN s ELSE Sub(s, 1, k - 1) \o d \o Sub(s, k + 1, Len(s))

(* s.trim() *)
trim(s) ==
  LET L[j \in 1..(Len(s) + 1)] ==
        IF j > Len(s) THEN j ELSE IF Ch(s, j) \in WhiteSpace THEN L[j + 1] ELSE j
      R[j \in 0..Len(s)] ==
        IF j = 0 THEN 0 ELSE IF Ch(s, j) \in WhiteSpace THEN R[j - 1] ELSE j
  IN  IF L[1] > R[Len(s)] THEN "" ELSE Sub(s, L[1], R[Len(s)])

startsWith(s, pre) == Len(pre) <= Len(s) /\ Sub(s, 1, Len(pre)) = pre

LowerOf(c) ==
  CASE c = "A" -> "a" [] c = "B" -> "b" [] c = "C" -> "c" [] c = "D" -> "d"
    [] c = "E" -> "e" [] c = "F" -> "f" [] c = "G" -> "g" [] c = "H" -> "h"
    [] c = "I" -> "i" [] c = "J" -> "j" [] c = "K" -> "k" [] c = "L" -> "l"
    [] c = "M" -> "m" [] c = "N" -> "n" [] c = "O" -> "o" [] c = "P" -> "p"
    [] c = "Q" -> "q" [] c = "R" -> "r" [] c = "S" -> "s" [] c = "T" -> "t"
    [] c = "U" -> "u" [] c = "V" -> "v" [] c = "W" -> "w" [] c = "X" -> "x"
    [] c = "Y" -> "y" [] c = "Z" -> "z"
    [] c = "Á" -> "á" [] c = "Ã" -> "ã" [] c = "Â" -> "â" [] c = "É" -> "é"
    [] c = "Ê" -> "ê" [] c = "Í" -> "í" [] c = "Ó" -> "ó" [] c = "Õ" -> "õ"
    [] c = "Ú" -> "ú" [] c = "Ç" -> "ç"
    [] OTHER -> c

toLowerCase(s) ==
  LET F[j \in 0..Len(s)] == IF j = 0 THEN "" ELSE F[j - 1] \o LowerOf(Ch(s, j))
  IN  F[Len(s)]

(* ---------------------------------------------------------------------- *)
(* JavaScript numbers: finite integers, the infinities and NaN            *)
(* ---------------------------------------------------------------------- *)
Fin(n) == [k |-> "fin", v |-> n]
Inf(sgn) == [k |-> "inf", v |-> sgn]
NaN == [k |-> "nan", v |-> 0]

isNaN(a) == a.k = "nan"

(* -a *)
Neg(a) == IF a.k = "nan" THEN NaN ELSE [k |-> a.k, v |-> 0 - a.v]

(* a - b *)
Minus(a, b) ==
  IF a.k = "nan" \/ b.k = "nan" THEN NaN
  ELSE IF a.k = "fin" /\ b.k = "fin" THEN Fin(a.v - b.v)
  ELSE IF a.k = "inf" /\ b.k = "inf" THEN (IF a.v = b.v THEN NaN ELSE a)
  ELSE IF a.k = "inf" THEN a
  ELSE Neg(b)

(* the sign kept *)
Abs_signed(a) == a

(* Math.abs(a) *)
Abs(a) == IF a.k = "nan" THEN NaN ELSE IF a.v < 0 THEN Neg(a) ELSE a

(* a >= 0 *)
GeZero(a) == a.k # "nan" /\ a.v >= 0

(* a === 0 *)
IsZero(a) == a.k = "fin" /\ a.v = 0

(* ---------------------------------------------------------------------- *)
(* parseFloat: the longest prefix that is a decimal literal               *)
(* ---------------------------------------------------------------------- *)
(* decimal exponent from which a product no longer is a finite double *)
MaxExp10 == 309

(* Math.round(m * 10^scale): m >= 0, halves round towards +Infinity *)
RoundScaled(m, scale, neg) ==
  IF m = 0 THEN Fin(0)
  ELSE IF scale >= 0
       THEN IF scale >= MaxExp10 THEN Inf(IF neg THEN -1 ELSE 1)
            ELSE Fin((IF neg THEN -1 ELSE 1) * m * Pow10(scale))
  ELSE IF 0 - scale > 9 THEN Fin(0)
  ELSE LET d == Pow10(0 - scale)
       IN  IF neg THEN Fin(0 - ((2 * m + d - 1) \div (2 * d)))
           ELSE Fin((2 * m + d) \div (2 * d))

(* Math.round(parseFloat(s) * 100); NaN when s does not start with a number *)
parseFloatTimes100(s) ==
  Bind(trim(s), LAMBDA t :
  Bind(Ch(t, 1) = "-", LAMBDA neg :
  Bind(IF Ch(t, 1) \in {"-", "+"} THEN 2 ELSE 1, LAMBDA p0 :
  Bind(DigitsRun(t, p0), LAMBDA n1 :
  Bind(IF Ch(t, p0 + n1) = "." THEN DigitsRun(t, p0 + n1 + 1) ELSE 0, LAMBDA n2 :
  Bind(IF Ch(t, p0 + n1) = "." /\ (n1 > 0 \/ n2 > 0) THEN p0 + n1 + 1 + n2 ELSE p0 + n1,
       LAMBDA p2 :
  Bind(IF Ch(t, p2 + 1) \in {"-", "+"} THEN p2 + 2 ELSE p2 + 1, LAMBDA q :
  Bind(IF Ch(t, p2) \in {"e", "E"} THEN DigitsRun(t, q) ELSE 0, LAMBDA n3 :
  Bind(IF n3 = 0 THEN 0
       ELSE (IF Ch(t, p2 + 1) = "-" THEN -1 ELSE 1) * ToInt(Sub(t, q, q + n3 - 1)),
       LAMBDA e :
  Bind(ToInt(Sub(t, p0, p0 + n1 - 1) \o Sub(t, p0 + n1 + 1, p0 + n1 + n2)), LAMBDA mant :
       IF startsWith(Sub(t, p0, Len(t)), "Infinity")
       THEN Inf(IF neg THEN -1 ELSE 1)
       ELSE IF n1 = 0 /\ n2 = 0 THEN NaN
       ELSE RoundScaled(mant, e - n2 + 2, neg)))))))))))

(* /^\d{1,3}(\.\d{3})*(,\d{1,2})?$/ *)
IsGroupedBR(s) ==
  Bind(DigitsRun(s, 1), LAMBDA n1 :
  LET G[j \in 1..(Len(s) + 1)] ==
        IF Ch(s, j) = "." /\ DigitsRun(s, j + 1) = 3 THEN G[j + 4] ELSE j
  IN  /\ n1 \in 1..3
      /\ Bind(G[n1 + 1], LAMBDA g :
           \/ g = Len(s) + 1
           \/ /\ Ch(s, g) = ","
              /\ DigitsRun(s, g + 1) \in 1..2
              /\ g + DigitsRun(s, g + 1) = Len(s)))

(* the grouping dots never removed *)
parseAmountToCents_keepDots(raw) ==
  Bind(trim(RemoveAll(raw, {"R", "$"} \cup WhiteSpace)), LAMBDA c0 :
  Bind(startsWith(c0, "-"), LAMBDA negative :
  Bind(IF negative THEN Sub(c0, 2, Len(c0)) ELSE c0, LAMBDA c1 :
  Bind(parseFloatTimes100(ReplaceFirst(c1, ",", ".")), LAMBDA value100 :
  Bind(IF isNaN(value100) THEN Fin(0) ELSE value100, LAMBDA cents :
       IF negative THEN Neg(cents) ELSE cents)))))

(* parseAmountToCents(raw) *)
parseAmountToCents(raw) ==
  Bind(trim(RemoveAll(raw, {"R", "$"} \cup WhiteSpace)), LAMBDA c0 :
  Bind(startsWith(c0, "-"), LAMBDA negative :
  Bind(IF negative THEN Sub(c0, 2, Len(c0)) ELSE c0, LAMBDA c1 :
  Bind(IF IsGroupedBR(c1) THEN ReplaceFirst(RemoveAll(c1, {"."}), ",", ".")
       ELSE ReplaceFirst(c1, ",", "."), LAMBDA c2 :
  Bind(parseFloatTimes100(c2), LAMBDA value100 :
  Bind(IF isNaN(value100) THEN Fin(0) ELSE value100, LAMBDA cents :
       IF negative THEN Neg(cents) ELSE cents))))))

(* entryType(amountCents) *)
entryType(amountCents) == IF GeZero(amountCents) THEN "income" ELSE "expense"

(* ---------------------------------------------------------------------- *)
(* Dates                                                                   *)
(* ---------------------------------------------------------------------- *)
NoDate == [y |-> -1, m |-> 0, d |-> 0]

IsLeap(y) == (y % 4 = 0 /\ y % 100 # 0) \/ y % 400 = 0

DaysInMonth(y, m) ==
  IF m = 2 THEN (IF IsLeap(y) THEN 29 ELSE 28)
  ELSE IF m \in {4, 6, 9, 11} THEN 30 ELSE 31

AllDigits(s) == Len(s) > 0 /\ DigitsRun(s, 1) = Len(s)

(* new Date(`${y}-${m}-${d}T12:00:00`).  A four-digit y with two-digit m and d   *)
(* is the ISO format every engine reads.  Two things are implementation-defined: *)
(* a day of 29..31 that the month does not have (rolled into the next month by   *)
(* a lenient engine, an Invalid Date otherwise) and a text that is not in the    *)
(* ISO format, here a one-digit day (read by a lenient engine's fallback parser, *)
(* an Invalid Date otherwise).                                                   *)
MakeDate(ys, ms, ds, lenientEngine) ==
  Bind(ToInt(ys), LAMBDA y :
  Bind(ToInt(ms), LAMBDA m :
  Bind(ToInt(ds), LAMBDA d :
       IF ~(AllDigits(ys) /\ Len(ys) = 4 /\ AllDigits(ms) /\ Len(ms) = 2
            /\ AllDigits(ds) /\ (Len(ds) = 2 \/ (Len(ds) = 1 /\ lenientEngine)))
       THEN NoDate
       ELSE IF m \notin 1..12 \/ d \notin 1..31 THEN NoDate
       ELSE IF d <= DaysInMonth(y, m) THEN [y |-> y, m |-> m, d |-> d]
       ELSE IF ~lenientEngine THEN NoDate
       ELSE IF m = 12 THEN [y |-> y + 1, m |-> 1, d |-> d - DaysInMonth(y, m)]
       ELSE [y |-> y, m |-> m + 1, d |-> d - DaysInMonth(y, m)])))

(* parseDate(raw): DD/MM/YYYY or a YYYY-MM-DD prefix, null (NoDate) otherwise *)
parseDate(raw0, lenientEngine) ==
  Bind(trim(raw0), LAMBDA raw :
  LET br == /\ Len(raw) = 10
            /\ DigitsRun(raw, 1) = 2 /\ Ch(raw, 3) = "/"
            /\ DigitsRun(raw, 4) = 2 /\ Ch(raw, 6) = "/"
            /\ DigitsRun(raw, 7) = 4
      iso == /\ DigitsRun(raw, 1) = 4 /\ Ch(raw, 5) = "-"
             /\ DigitsRun(raw, 6) = 2 /\ Ch(raw, 8) = "-"
             /\ DigitsRun(raw, 9) >= 2
  IN  IF br
      THEN IF Sub(raw, 1, 2) = "00" \/ Sub(raw, 4, 5) = "00" THEN NoDate
           ELSE MakeDate(Sub(raw, 7, 10), Sub(raw, 4, 5), Sub(raw, 1, 2),
                         lenientEngine)
      ELSE IF iso
      THEN MakeDate(Sub(raw, 1, 4), Sub(raw, 6, 7), Sub(raw, 9, 10),
                    lenientEngine)
      ELSE NoDate)

RECURSIVE padStart(_, _)
padStart(t, w) == IF Len(t) < w THEN padStart("0" \o t, w) ELSE t

Pad(n, w) == padStart(ToString(n), w)

(* date.toISOString().slice(0, 10) of a date anchored at local noon,      *)
(* for a UTC offset below twelve hours                                     *)
dateStr(date) == Pad(date.y, 4) \o "-" \o Pad(date.m, 2) \o "-" \o Pad(date.d, 2)

(* ---------------------------------------------------------------------- *)
(* CSV rows                                                                *)
(* ---------------------------------------------------------------------- *)
(* s.normalize('NFD').replace(/[̀-ͯ]/g, '') of one character *)
BaseOf(c) ==
  CASE c = "á" -> "a" [] c = "ã" -> "a" [] c = "â" -> "a" [] c = "é" -> "e"
    [] c = "ê" -> "e" [] c = "í" -> "i" [] c = "ó" -> "o" [] c = "õ" -> "o"
    [] c = "ú" -> "u" [] c = "ç" -> "c"
    [] c = "Á" -> "a" [] c = "É" -> "e" [] c = "Í" -> "i" [] c = "Ó" -> "o"
    [] c = "Ú" -> "u" [] c = "Ç" -> "c"
    [] OTHER -> c

(* norm(s): lowercase and remove diacritics *)
norm(s) ==
  LET F[j \in 0..Len(s)] == IF j = 0 THEN "" ELSE F[j - 1] \o BaseOf(LowerOf(Ch(s, j)))
  IN  F[Len(s)]

(* position after word w and the white space before it, the words so far *)
(* ending before position prev; 0 when there is no match                 *)
AfterWord(t, prev, first, w) ==
  LET SkipWs[j \in 1..(Len(t) + 1)] ==
        IF j <= Len(t) /\ Ch(t, j) \in WhiteSpace THEN SkipWs[j + 1] ELSE j
  IN  Bind(IF first THEN 1
           ELSE IF prev = 0 THEN 0
           ELSE IF Ch(t, prev) \in WhiteSpace THEN SkipWs[prev]
           ELSE 0, LAMBDA start :
        IF start = 0 THEN 0
        ELSE IF Sub(t, start, start + Len(w) - 1) = w THEN start + Len(w)
        ELSE 0)

(* the pattern without its i flag *)
MatchesSpaced_caseSensitive(s, words) ==
  LET F[n \in 0..Len(words)] ==
        IF n = 0 THEN 1 ELSE AfterWord(s, F[n - 1], n = 1, words[n])
  IN  F[Len(words)] # 0

(* /^w1\s+w2\s+...\s+wn/i *)
MatchesSpaced(s, words) ==
  Bind(toLowerCase(s), LAMBDA t :
  LET F[n \in 0..Len(words)] ==
        IF n = 0 THEN 1 ELSE AfterWord(t, F[n - 1], n = 1, words[n])
  IN  F[Len(words)] # 0)

SKIP_SALDO_ANTERIOR(s) == MatchesSpaced(s, <<"saldo", "anterior">>)
SKIP_SALDO_DO_DIA(s) == MatchesSpaced(s, <<"saldo", "do", "dia">>)
IS_SALDO(s) == MatchesSpaced(s, <<"s", "a", "l", "d", "o">>)

(* cols[idx] ?? '' ; a cell that is missing or empty is falsy *)
Cell(cols, idx) == IF 0 <= idx /\ idx < Len(cols) THEN cols[idx + 1] ELSE ""

(* `${date}|${description}|${amountCents}`: the text the import hash is taken of *)
NumText(a) ==
  IF a.k = "nan" THEN "NaN"
  ELSE IF a.k = "inf" THEN (IF a.v < 0 THEN "-Infinity" ELSE "Infinity")
  ELSE ToString(a.v)

hashText(date, description, amountCents) ==
  date \o "|" \o description \o "|" \o NumText(amountCents)

(* ---------------------------------------------------------------------- *)
(* computeImportHash: 32-bit lanes kept as two 16-bit halves <<hi, lo>>    *)
(* ---------------------------------------------------------------------- *)
(* bit p (a power of two) of a ^ b *)
XorBit(a, b, p) == p * (((a \div p) + (b \div p)) % 2)

(* a ^ b of two 4-bit values scaled by p *)
Xor4(a, b, p) ==
  (XorBit(a, b, p) + XorBit(a, b, 2 * p)) + (XorBit(a, b, 4 * p) + XorBit(a, b, 8 * p))

(* a ^ b of two 16-bit values *)
Xor16(a, b) ==
  (Xor4(a, b, 1) + Xor4(a, b, 16)) + (Xor4(a, b, 256) + Xor4(a, b, 4096))

(* x ^ y *)
xor(x, y) == <<Xor16(x[1], y[1]), Xor16(x[2], y[2])>>

(* x >>> 16 and x >>> 13 *)
shr16(x) == <<0, x[1]>>
shr13(x) == <<x[1] \div 8192, (x[1] % 8192) * 8 + x[2] \div 8192>>

(* the low 16 bits of the product of two 16-bit values *)
MulLow16(a, b) ==
  ((a % 256) * (b % 256)
   + 256 * ((((a \div 256) * (b % 256)) + ((a % 256) * (b \div 256))) % 256)) % 65536

(* the bits above the low 16 of the product of two 16-bit values, modulo 2^16 *)
MulHigh16(a, b) ==
  Bind(((a \div 256) * (b % 256)) + ((a % 256) * (b \div 256)), LAMBDA mid :
    ((((a % 256) * (b % 256)) + 256 * (mid % 256)) \div 65536
     + mid \div 256 + (a \div 256) * (b \div 256)) % 65536)

(* Math.imul(x, y): the low 32 bits of the product *)
imul(x, y) ==
  <<(MulHigh16(x[2], y[2]) + MulLow16(x[1], y[2]) + MulLow16(x[2], y[1])) % 65536,
    MulLow16(x[2], y[2])>>

(* the UTF-16 code of the characters of the statements considered *)
CharCodes ==
  {<<Ch("0123456789", k), 47 + k>> : k \in 1..10}
  \cup {<<Ch("ABCDEFGHIJKLMNOPQRSTUVWXYZ", k), 64 + k>> : k \in 1..26}
  \cup {<<Ch("abcdefghijklmnopqrstuvwxyz", k), 96 + k>> : k \in 1..26}
  \cup {<<" ", 32>>, <<",", 44>>, <<"-", 45>>, <<".", 46>>, <<"/", 47>>, <<"|", 124>>,
        <<"á", 225>>, <<"ã", 227>>, <<"ç", 231>>, <<"é", 233>>, <<"í", 237>>,
        <<"ó", 243>>, <<"ú", 250>>}

(* raw.charCodeAt(j - 1) *)
charCodeAt(raw, j) == (CHOOSE p \in CharCodes : p[1] = Ch(raw, j))[2]

(* one pass of the loop: both lanes mixed with the character code ch *)
hashStep(h, ch) ==
  [h1 |-> imul(xor(h.h1, <<0, ch>>), <<40503, 31153>>),
   h2 |-> imul(xor(h.h2, <<0, ch>>), <<24373, 25749>>)]

(* the loop over the characters a..b of raw, from the lanes h; the lanes   *)
(* are computed before the range is entered and the range is halved, which *)
(* keeps the evaluation shallow                                            *)
RECURSIVE hashLoop(_, _, _, _)
hashLoop(raw, a, b, h) ==
  IF h.h1[1] < 0 \/ a > b THEN h
  ELSE IF a = b THEN hashStep(h, charCodeAt(raw, a))
  ELSE hashLoop(raw, (a + b) \div 2 + 1, b, hashLoop(raw, a, (a + b) \div 2, h))

(* the two lanes after the loop over raw and the final mixing *)
hashLanes(raw) ==
  Bind(hashLoop(raw, 1, Len(raw), [h1 |-> <<57005, 48879>>, h2 |-> <<16838, 52823>>]),
       LAMBDA l :
  Bind(xor(imul(xor(l.h1, shr16(l.h1)), <<34283, 51819>>),
           imul(xor(l.h2, shr13(l.h2)), <<49842, 44597>>)), LAMBDA h1 :
  Bind(xor(imul(xor(l.h2, shr16(l.h2)), <<34283, 51819>>),
           imul(xor(h1, shr13(h1)), <<49842, 44597>>)), LAMBDA h2 :
       [h1 |-> h1, h2 |-> h2])))

HexDigit(n) == Ch("0123456789abcdef", n + 1)

(* n.toString(16) of a 16-bit value *)
RECURSIVE ToHex(_)
ToHex(n) == IF n < 16 THEN HexDigit(n) ELSE ToHex(n \div 16) \o HexDigit(n % 16)

(* (x >>> 0).toString(16) *)
toString16(x) ==
  IF x[1] = 0 THEN ToHex(x[2]) ELSE ToHex(x[1]) \o padStart(ToHex(x[2]), 4)

(* the lanes without their zero padding *)
hexOfLanes_unpadded(l) == toString16(l.h2) \o toString16(l.h1)

(* hi + lo: each lane as 8 hex digits, h2 first *)
hexOfLanes(l) == padStart(toString16(l.h2), 8) \o padStart(toString16(l.h1), 8)

(* computeImportHash(date, description, amountCents) *)
computeImportHash(date, description, amountCents) ==
  hexOfLanes(hashLanes(hashText(date, description, amountCents)))

(* credit and debit added instead of subtracted *)
csvAmount_sum(hdr, cols) ==
  IF hdr.valueIdx # -1 /\ Cell(cols, hdr.valueIdx) # ""
  THEN parseAmountToCents(Cell(cols, hdr.valueIdx))
  ELSE IF hdr.debitIdx # -1 \/ hdr.creditIdx # -1
  THEN Bind(IF hdr.debitIdx # -1 /\ Cell(cols, hdr.debitIdx) # ""
            THEN parseAmountToCents(Cell(cols, hdr.debitIdx)) ELSE Fin(0),
            LAMBDA debit :
       Bind(IF hdr.creditIdx # -1 /\ Cell(cols, hdr.creditIdx) # ""
            THEN parseAmountToCents(Cell(cols, hdr.creditIdx)) ELSE Fin(0),
            LAMBDA credit : Minus(credit, Neg(debit))))
  ELSE Fin(0)

(* the amount of a transaction candidate *)
csvAmount(hdr, cols) ==
  IF hdr.valueIdx # -1 /\ Cell(cols, hdr.valueIdx) # ""
  THEN parseAmountToCents(Cell(cols, hdr.valueIdx))
  ELSE IF hdr.debitIdx # -1 \/ hdr.creditIdx # -1
  THEN Bind(IF hdr.debitIdx # -1 /\ Cell(cols, hdr.debitIdx) # ""
            THEN parseAmountToCents(Cell(cols, hdr.debitIdx)) ELSE Fin(0),
            LAMBDA debit :
       Bind(IF hdr.creditIdx # -1 /\ Cell(cols, hdr.creditIdx) # ""
            THEN parseAmountToCents(Cell(cols, hdr.creditIdx)) ELSE Fin(0),
            LAMBDA credit : Minus(credit, debit)))
  ELSE Fin(0)

(* the label column ignored *)
csvType_signOnly(hdr, cols, amountCents) == entryType(amountCents)

(* the type of a transaction candidate *)
csvType(hdr, cols, amountCents) ==
  IF hdr.typeIdx # -1 /\ Cell(cols, hdr.typeIdx) # ""
  THEN Bind(norm(Cell(cols, hdr.typeIdx)), LAMBDA typeVal :
         IF startsWith(typeVal, "entrada") \/ startsWith(typeVal, "credito")
            \/ startsWith(typeVal, "credit")
         THEN "income"
         ELSE IF startsWith(typeVal, "saida") \/ startsWith(typeVal, "debito")
                 \/ startsWith(typeVal, "debit")
         THEN "expense"
         ELSE entryType(amountCents))
  ELSE entryType(amountCents)

(* the balance taken without its sign *)
csvBalance_abs(hdr, cols) ==
  IF hdr.valueIdx # -1 /\ Cell(cols, hdr.valueIdx) # ""
  THEN Abs(parseAmountToCents(Cell(cols, hdr.valueIdx)))
  ELSE IF hdr.creditIdx # -1 /\ Cell(cols, hdr.creditIdx) # ""
  THEN Abs(parseAmountToCents(Cell(cols, hdr.creditIdx)))
  ELSE Fin(0)

(* the balance of an "S A L D O" row *)
csvBalance(hdr, cols) ==
  IF hdr.valueIdx # -1 /\ Cell(cols, hdr.valueIdx) # ""
  THEN parseAmountToCents(Cell(cols, hdr.valueIdx))
  ELSE IF hdr.creditIdx # -1 /\ Cell(cols, hdr.creditIdx) # ""
  THEN parseAmountToCents(Cell(cols, hdr.creditIdx))
  ELSE Fin(0)

(* one pass of the row loop of parseCsv: what the row adds to the result *)
csvRow(hdr, cols, lenientEngine) ==
  Bind(parseDate(Cell(cols, hdr.dateIdx), lenientEngine), LAMBDA date :
  Bind(Cell(cols, hdr.descIdx), LAMBDA lancamento :
  Bind(IF hdr.detailsIdx # -1 THEN Cell(cols, hdr.detailsIdx) ELSE "", LAMBDA details :
  Bind(IF hdr.docIdx # -1 THEN Cell(cols, hdr.docIdx) ELSE "", LAMBDA documentId :
       IF date = NoDate THEN [kind |-> "skip"]
       ELSE IF SKIP_SALDO_ANTERIOR(lancamento) THEN [kind |-> "skip"]
       ELSE IF SKIP_SALDO_DO_DIA(lancamento) THEN [kind |-> "skip"]
       ELSE IF IS_SALDO(lancamento)
       THEN Bind(csvBalance(hdr, cols), LAMBDA balanceCents :
              [kind |-> "balance",
               rec |-> [date |-> date, balanceCents |-> balanceCents,
                        importHash |-> hashText(dateStr(date), "SALDO", balanceCents)]])
       ELSE Bind(csvAmount(hdr, cols), LAMBDA amountCents :
              IF IsZero(amountCents) /\ lancamento = "" THEN [kind |-> "skip"]
              ELSE [kind |-> "tx",
                    rec |-> [date |-> date, description |-> lancamento,
                             amountCents |-> Abs(amountCents),
                             type |-> csvType(hdr, cols, amountCents),
                             importHash |->
                               hashText(dateStr(date), lancamento, Abs(amountCents)),
                             details |-> trim(details),
                             documentId |-> trim(documentId)]])))))

(* what one result of csvRow adds to the rows parsed so far *)
csvAdd(acc, r) ==
  IF r.kind = "tx" THEN [acc EXCEPT !.transactions = Append(@, r.rec)]
  ELSE IF r.kind = "balance" THEN [acc EXCEPT !.balances = Append(@, r.rec)]
  ELSE acc

(* the row loop entered whatever the header is *)
parseCsv_unguarded(hdr, rows, lenientEngine) ==
  LET F[n \in 0..Len(rows)] ==
        IF n = 0 THEN [threw |-> FALSE, transactions |-> <<>>, balances |-> <<>>]
        ELSE csvAdd(F[n - 1], csvRow(hdr, rows[n], lenientEngine))
  IN  F[Len(rows)]

(* parseCsv on the tokenized data rows, hdr being the column index of every role *)
parseCsv(hdr, rows, lenientEngine) ==
  LET F[n \in 0..Len(rows)] ==
        IF n = 0 THEN [threw |-> FALSE, transactions |-> <<>>, balances |-> <<>>]
        ELSE csvAdd(F[n - 1], csvRow(hdr, rows[n], lenientEngine))
  IN  IF hdr.dateIdx = -1 \/ hdr.descIdx = -1
      THEN [threw |-> FALSE, transactions |-> <<>>, balances |-> <<>>]
      ELSE F[Len(rows)]

(* ---------------------------------------------------------------------- *)
(* CSV text: lines, tokenizer, header roles                                *)
(* ---------------------------------------------------------------------- *)
(* text.split(/\r?\n/).map(l => l.trim()).filter(l => l.length > 0), the text *)
(* given as the sequence of its lines                                        *)
csvLines(rawLines) ==
  SelectSeq([k \in 1..Len(rawLines) |-> trim(rawLines[k])], LAMBDA l : Len(l) > 0)

includes(s, c) == IndexOf(s, c) # 0

(* lines[0].includes(';') ? ';' : ',' *)
delimiterOf(lines) == IF includes(lines[1], ";") THEN ";" ELSE ","

(* the loop of splitRow from position j on (1-based) *)
RECURSIVE splitFrom(_, _, _, _, _, _)
splitFrom(line, delimiter, j, current, inQuotes, result) ==
  IF j > Len(line) THEN Append(result, trim(current))
  ELSE Bind(Ch(line, j), LAMBDA ch :
         IF (ch = "\"" \/ ch = "'") /\ ~inQuotes
         THEN splitFrom(line, delimiter, j + 1, current, TRUE, result)
         ELSE IF ch = "\"" /\ inQuotes
         THEN IF Ch(line, j + 1) = "\""
              THEN splitFrom(line, delimiter, j + 2, current \o "\"", TRUE, result)
              ELSE splitFrom(line, delimiter, j + 1, current, FALSE, result)
         ELSE IF ch = delimiter /\ ~inQuotes
         THEN splitFrom(line, delimiter, j + 1, "", FALSE, Append(result, trim(current)))
         ELSE splitFrom(line, delimiter, j + 1, current \o ch, inQuotes, result))

(* splitRow(line) *)
splitRow(line, delimiter) == splitFrom(line, delimiter, 1, "", FALSE, <<>>)

(* headers.findIndex(h => test(h)): 0-based, -1 when no header passes *)
findIndex(headers, Test(_)) ==
  LET F[k \in 1..(Len(headers) + 1)] ==
        IF k > Len(headers) THEN -1 ELSE IF Test(headers[k]) THEN k - 1 ELSE F[k + 1]
  IN  F[1]

(* /^(p1|p2|...)/ *)
startsWithAny(h, prefixes) == \E p \in prefixes : startsWith(h, p)

(* /^n[°o]?\s*(doc|documento)/ *)
IsDocHeader(h) ==
  LET SkipWs[j \in 1..(Len(h) + 1)] ==
        IF j <= Len(h) /\ Ch(h, j) \in WhiteSpace THEN SkipWs[j + 1] ELSE j
  IN  /\ Ch(h, 1) = "n"
      /\ \E a \in {2} \cup {3 : x \in {c \in {"°", "o"} : Ch(h, 2) = c}} :
           Sub(h, SkipWs[a], SkipWs[a] + 2) = "doc"

(* /^(valor|value|amount|val\b)/ *)
IsValueHeader(h) ==
  \/ startsWithAny(h, {"valor", "value", "amount"})
  \/ startsWith(h, "val") /\ Ch(h, 4) \notin WordChars

(* the column index of every role, from the normalized header cells *)
headerIndices(headers) ==
  [dateIdx |-> findIndex(headers, LAMBDA h : startsWithAny(h, {"data", "date", "dt"})),
   descIdx |-> findIndex(headers, LAMBDA h :
                 startsWithAny(h, {"descri", "histor", "memo", "lanc", "descr", "desc"})),
   detailsIdx |-> findIndex(headers, LAMBDA h :
                    startsWithAny(h, {"detalhe", "detail", "complemento", "memo2"})),
   docIdx |-> findIndex(headers, IsDocHeader),
   valueIdx |-> findIndex(headers, IsValueHeader),
   debitIdx |-> findIndex(headers, LAMBDA h : startsWithAny(h, {"debito", "debit", "saida"})),
   creditIdx |-> findIndex(headers, LAMBDA h :
                   startsWithAny(h, {"credito", "credit", "entrada"})),
   typeIdx |-> findIndex(headers, LAMBDA h : startsWith(h, "tipo"))]

(* splitRow of every line of a sequence *)
splitRows(lines, delimiter) == [k \in 1..Len(lines) |-> splitRow(lines[k], delimiter)]

(* parseCsv(text) once the lines are there: header, roles and the row loop; *)
(* rows keeps the cells splitRow returned for the data lines                *)
parseCsvLines(lines, lenientEngine) ==
  IF Len(lines) < 2
  THEN [threw |-> FALSE, transactions |-> <<>>, balances |-> <<>>, rows |-> <<>>]
  ELSE Bind(delimiterOf(lines), LAMBDA delimiter :
       Bind(splitRow(lines[1], delimiter), LAMBDA cells :
       Bind(headerIndices([k \in 1..Len(cells) |-> norm(cells[k])]), LAMBDA hdr :
       Bind(splitRows(SubSeq(lines, 2, Len(lines)), delimiter), LAMBDA rows :
            [rows |-> rows] @@ parseCsv(hdr, rows, lenientEngine)))))

(* parseCsv(text), the text given as the sequence of its lines *)
parseCsvText(rawLines, lenientEngine) == parseCsvLines(csvLines(rawLines), lenientEngine)

(* ---------------------------------------------------------------------- *)
(* OFX blocks                                                              *)
(* ---------------------------------------------------------------------- *)
(* s.replace(/\d+\W/g, "") *)
stripDigitRuns(s) ==
  LET F[j \in 1..(Len(s) + 2)] ==
        IF j > Len(s) THEN ""
        ELSE Bind(DigitsRun(s, j), LAMBDA n :
             Bind(Ch(s, j + n), LAMBDA after :
               IF n > 0 /\ after # "" /\ after \notin WordChars
               THEN F[j + n + 1]
               ELSE Ch(s, j) \o F[j + 1]))
  IN  F[1]

Has(fields, tag) == tag \in DOMAIN fields
Field(fields, tag, default) == IF Has(fields, tag) THEN fields[tag] ELSE default

(* amount of a block: TRNAMT with a decimal comma or point *)
ofxAmount(fields) ==
  Bind(parseFloatTimes100(ReplaceFirst(Field(fields, "TRNAMT", "0"), ",", ".")),
       LAMBDA cents : IF isNaN(cents) THEN Fin(0) ELSE cents)

(* the date of a block; "none" drops the block, "invalid" is an Invalid Date *)
ofxDate(fields, lenientEngine) ==
  Bind(Field(fields, "DTPOSTED", ""), LAMBDA dtPosted :
  Bind(Sub(dtPosted, 1, Min(4, Len(dtPosted))), LAMBDA year :
  Bind(Sub(dtPosted, 5, Min(6, Len(dtPosted))), LAMBDA month :
  Bind(Sub(dtPosted, 7, Min(8, Len(dtPosted))), LAMBDA day :
       IF year = "" \/ month = "" \/ day = "" THEN [kind |-> "none", date |-> NoDate]
       ELSE Bind(MakeDate(year, month, day, lenientEngine), LAMBDA date :
              IF date = NoDate THEN [kind |-> "invalid", date |-> NoDate]
              ELSE [kind |-> "ok", date |-> date])))))

ofxEntry(fields, date, description) ==
  Bind(ofxAmount(fields), LAMBDA amountCents :
       [date |-> date, description |-> description,
        amountCents |-> Abs(amountCents), type |-> entryType(amountCents),
        importHash |-> hashText(dateStr(date), description, Abs(amountCents)),
        documentId |-> trim(Field(fields, "FITID", ""))])

(* a block of the closing-tag pass *)
ofxBlockClosed(fields, lenientEngine) ==
  Bind(Field(fields, "NAME", ""), LAMBDA name :
  Bind(IF Has(fields, "MEMO") THEN stripDigitRuns(fields["MEMO"]) ELSE "", LAMBDA memo :
  Bind(ofxDate(fields, lenientEngine), LAMBDA dt :
       IF name = "Saldo Anterior" \/ name = "Saldo do dia" THEN [kind |-> "skip"]
       ELSE IF dt.kind = "none" THEN [kind |-> "skip"]
       ELSE IF dt.kind = "invalid" THEN [kind |-> "throw"]
       ELSE [kind |-> "tx", rec |-> ofxEntry(fields, dt.date, memo)])))

(* a block of the flat (SGML) pass *)
ofxBlockFlat(fields, lenientEngine) ==
  Bind(ofxDate(fields, lenientEngine), LAMBDA dt :
  Bind(IF Has(fields, "MEMO") THEN fields["MEMO"]
       ELSE IF Has(fields, "NAME") THEN fields["NAME"]
       ELSE Field(fields, "FITID", ""), LAMBDA description :
       IF Has(fields, "NAME") /\ fields["NAME"] \in {"Saldo Anterior", "Saldo do Dia"}
       THEN [kind |-> "skip"]
       ELSE IF dt.kind = "none" THEN [kind |-> "skip"]
       ELSE IF dt.kind = "invalid" THEN [kind |-> "throw"]
       ELSE [kind |-> "tx", rec |-> ofxEntry(fields, dt.date, description)]))

Threw == [threw |-> TRUE, transactions |-> <<>>, balances |-> <<>>]

(* what one block adds to the transactions so far; an exception ends the pass *)
ofxAdd(acc, r) ==
  IF acc.threw \/ r.kind = "throw" THEN Threw
  ELSE IF r.kind = "tx" THEN [acc EXCEPT !.transactions = Append(@, r.rec)]
  ELSE acc

(* one pass over the blocks: the transactions, or the exception that ended it *)
ofxPass(blocks, lenientEngine, flat) ==
  LET F[n \in 0..Len(blocks)] ==
        IF n = 0 THEN [threw |-> FALSE, transactions |-> <<>>, balances |-> <<>>]
        ELSE ofxAdd(F[n - 1],
                    IF flat THEN ofxBlockFlat(blocks[n], lenientEngine)
                    ELSE ofxBlockClosed(blocks[n], lenientEngine))
  IN  F[Len(blocks)]

(* the bodies blockRe matches: a body runs from an opening tag to the first   *)
(* closing tag after it, so it holds the tags of every block without closing *)
(* tag met on the way; tagRe keeps the last value of a tag                   *)
closedBodies(marks, blocks) ==
  LET F[n \in 0..Len(blocks)] ==
        IF n = 0 THEN [bodies |-> <<>>, open |-> <<>>]
        ELSE Bind(F[n - 1], LAMBDA acc :
             Bind(blocks[n] @@ acc.open, LAMBDA fields :
               IF marks[n] THEN [bodies |-> Append(acc.bodies, fields), open |-> <<>>]
               ELSE [bodies |-> acc.bodies, open |-> fields]))
  IN  F[Len(blocks)].bodies

(* parseOfx on the field maps of the STMTTRN blocks of the text; marks[n] tells *)
(* whether block n carries its closing tag                                      *)
parseOfxMarked(marks, blocks, lenientEngine) ==
  Bind(ofxPass(closedBodies(marks, blocks), lenientEngine, FALSE), LAMBDA first :
       IF first.threw THEN Threw
       ELSE IF Len(first.transactions) = 0 THEN ofxPass(blocks, lenientEngine, TRUE)
       ELSE first)

(* parseOfx on the field maps of the STMTTRN blocks of the text; closed tells *)
(* whether the blocks carry their closing tag                                 *)
parseOfx(closed, blocks, lenientEngine) ==
  parseOfxMarked([n \in 1..Len(blocks) |-> closed], blocks, lenientEngine)

(* ---------------------------------------------------------------------- *)
(* State                                                                   *)
(* ---------------------------------------------------------------------- *)
VARIABLES
  store,           \* store[<<userId, kind>>]: the documents of the collection
  args,            \* args[p]: fn, userId, accountId, transactions of the call
  pc,              \* pc[p]: position of the invocation
  i,               \* i[p]: loop index of the running loop
  existingHashes,  \* existingHashes[p]: the "already seen" set
  toImport,        \* toImport[p]: the import set
  skipped,         \* skipped[p]
  result,          \* result[p]: the value the promise resolved with
  calls,           \* calls[p]: store calls issued by the current invocation
  run,             \* run[p]: number of invocations started
  fresh,           \* fresh[p]: the collection held none of the call's hashes when it began
  raced,           \* raced[p]: another invocation committed to the collection meanwhile
  hist,            \* hist[p]: outcome of every finished invocation
  file,            \* the statement file handed to the parser
  lenient,         \* whether the engine's Date rolls a day the month does not have
  ppc,             \* position of the parse
  out,             \* the ParsedBankStatement, or the exception, of the parse
  page,            \* the state hooks and pending handlers of the import page
  recur            \* the rules, the entries and the run of the recurring-rules page

ivars == <<store, args, pc, i, existingHashes, toImport, skipped, result,
           calls, run, fresh, raced, hist>>

pvars == <<file, lenient, ppc, out>>

uvars == <<page, recur>>

vars == <<store, args, pc, i, existingHashes, toImport, skipped, result,
          calls, run, fresh, raced, hist, file, lenient, ppc, out, page, recur>>

NoResult == [imported |-> -1, skipped |-> -1]

ledgerCol(userId) == <<userId, "ledgerEntries">>
accountBalancesCol(userId) == <<userId, "accountBalances">>

ColOf(a) == IF a.fn = "importLedgerEntries" THEN ledgerCol(a.userId)
            ELSE accountBalancesCol(a.userId)

KindOf(fn) == IF fn = "importLedgerEntries" THEN "ledgerEntries" ELSE "accountBalances"

allHashes(records) == [k \in 1..Len(records) |-> records[k].importHash]

(* query(col, where('importHash', 'in', chunk)); getDocs(q) *)
getDocs(docs, chunk) ==
  Bind(RangeOf(chunk), LAMBDA wanted : SelectSeq(docs, LAMBDA d : d.importHash \in wanted))

(* only the first document of the snapshot is looked at *)
addFound_first(existing, snap) ==
  existing \cup {snap[k].importHash : k \in 1..Min(1, Len(snap))}

(* snap.docs.forEach(d => existingHashes.add(hash)) *)
addFound(existing, snap) == existing \cup {snap[k].importHash : k \in 1..Len(snap)}

(* the filter with its negation dropped *)
filterNew_inverted(records, existing) ==
  SelectSeq(records, LAMBDA t : t.importHash \in existing)

(* transactions.filter(t => !existingHashes.has(t.importHash)) *)
filterNew(records, existing) == SelectSeq(records, LAMBDA t : t.importHash \notin existing)

(* the document written without the account of the call *)
entry_noAccount(a, t) == [userId |-> a.userId, accountId |-> ""] @@ t

(* the document batch.set writes for one record *)
entry(a, t) == [userId |-> a.userId, accountId |-> a.accountId] @@ t

entries(a, chunk) == [k \in 1..Len(chunk) |-> entry(a, chunk[k])]

(* dedup per chunk: writing starts as soon as one query found something to import *)
AfterQuery_eager(iNext, nHashes, nToImport) ==
  IF 0 < nToImport THEN "write"
  ELSE IF iNext < nHashes THEN "query" ELSE "done"

(* where the invocation goes once a query has answered *)
AfterQuery(iNext, nHashes, nToImport) ==
  IF iNext < nHashes THEN "query"
  ELSE IF 0 < nToImport THEN "write" ELSE "done"

(* only the first write batch is committed *)
AfterCommit_once(iNext, nToImport) == "done"

(* where the invocation goes once a write batch has committed *)
AfterCommit(iNext, nToImport) == IF iNext < nToImport THEN "write" ELSE "done"

(* documents keyed by their importHash: a hash already stored is not written again *)
commitDocs_keyed(docs, newDocs) ==
  docs \o SelectSeq(newDocs,
             LAMBDA n : \A k \in 1..Len(docs) : docs[k].importHash # n.importHash)

(* batch.set(doc(col), entry) ... batch.commit(): every entry gets a new document *)
commitDocs(docs, newDocs) == docs \o newDocs

(* the rejected call is issued once more before giving up *)
OnReject_retry(op, cs) ==
  IF \A k \in 1..Len(cs) : cs[k].ok THEN op ELSE "failed"

(* a rejected getDocs / batch.commit is not caught: the invocation ends *)
OnReject(op, cs) == "failed"

HeldNone(docs, records) ==
  Bind(RangeOf(allHashes(records)), LAMBDA wanted :
       \A k \in 1..Len(docs) : docs[k].importHash \notin wanted)

Others(p) == Procs \ {p}

Running(q) == pc[q] \in {"query", "write"}

Written(cs) ==
  LET commits == SelectSeq(cs, LAMBDA c : c.op = "commit" /\ c.ok)
      F[k \in 0..Len(commits)] == IF k = 0 THEN 0 ELSE F[k - 1] + Len(commits[k].arg)
  IN  F[Len(commits)]

Outcome(status, res, cs, fr, rc) ==
  [status |-> status, result |-> res, written |-> Written(cs), fresh |-> fr, raced |-> rc]

(* ---------------------------------------------------------------------- *)
(* Initial states                                                          *)
(* ---------------------------------------------------------------------- *)
Fns == {"importLedgerEntries", "importAccountBalances"}

Arg(fn, u, acc, hs) ==
  [fn |-> fn, userId |-> u, accountId |-> acc, transactions |-> ItemsOf(KindOf(fn), hs)]

InitRest ==
  /\ store = [c \in Cols |-> <<>>]
  /\ pc = [p \in Procs |-> "idle"]
  /\ i = [p \in Procs |-> 0]
  /\ existingHashes = [p \in Procs |-> {}]
  /\ toImport = [p \in Procs |-> <<>>]
  /\ skipped = [p \in Procs |-> 0]
  /\ result = [p \in Procs |-> NoResult]
  /\ calls = [p \in Procs |-> <<>>]
  /\ run = [p \in Procs |-> 0]
  /\ fresh = [p \in Procs |-> TRUE]
  /\ raced = [p \in Procs |-> FALSE]
  /\ hist = [p \in Procs |-> <<>>]

NoFile == [kind |-> "none"]
NoOut == [threw |-> FALSE, transactions |-> <<>>, balances |-> <<>>]

NoParse ==
  /\ file = NoFile
  /\ lenient = FALSE
  /\ ppc = "off"
  /\ out = NoOut

NoPage == [kind |-> "none"]
NoRecur == [kind |-> "none"]

NoUi ==
  /\ page = NoPage
  /\ recur = NoRecur

Targets2 ==
  { <<"importLedgerEntries", "u1", "A">>, <<"importLedgerEntries", "u1", "B">>,
    <<"importLedgerEntries", "u2", "A">>, <<"importAccountBalances", "u1", "A">> }

(* the list of the second caller: the same statement, or at most one record *)
OtherLists(hs1) == {hs1} \cup SeqsUpTo(1..MaxHash, 1)

Init ==
  /\ \E hs1 \in SmallHashLists, t2 \in Targets2 :
     \E hs2 \in OtherLists(hs1) :
       args = [p \in Procs |->
                 IF p = "p1" THEN Arg("importLedgerEntries", "u1", "A", hs1)
                 ELSE Arg(t2[1], t2[2], t2[3], hs2)]
  /\ InitRest
  /\ NoParse
  /\ NoUi

InitBulk ==
  /\ \E hs1 \in BulkHashLists, hs2 \in {<<>>} :
       args = [p \in Procs |->
                 IF p = "p1" THEN Arg("importLedgerEntries", "u1", "A", hs1)
                 ELSE Arg("importLedgerEntries", "u1", "A", hs2)]
  /\ InitRest
  /\ NoParse
  /\ NoUi

(* ---------------------------------------------------------------------- *)
(* importLedgerEntries / importAccountBalances, one action per await      *)
(* ---------------------------------------------------------------------- *)
Finish(p, status, res, cs) ==
  hist' = [hist EXCEPT ![p] = Append(@, Outcome(status, res, cs, fresh[p], raced[p]))]

(* the invocations the callers have made so far *)
Invocations == run["p1"] + run["p2"]

(* the caller invokes the import: the code up to the first await *)
Call(p) ==
  /\ pc[p] \in {"idle", "done", "failed", "aborted"}
  /\ Invocations < MaxRuns
  /\ run' = [run EXCEPT ![p] = @ + 1]
  /\ calls' = [calls EXCEPT ![p] = <<>>]
  /\ existingHashes' = [existingHashes EXCEPT ![p] = {}]
  /\ toImport' = [toImport EXCEPT ![p] = <<>>]
  /\ skipped' = [skipped EXCEPT ![p] = 0]
  /\ i' = [i EXCEPT ![p] = 0]
  /\ raced' = [raced EXCEPT ![p] = FALSE]
  /\ fresh' = [fresh EXCEPT ![p] = HeldNone(store[ColOf(args[p])], args[p].transactions)]
  /\ IF Len(args[p].transactions) = 0
     THEN /\ pc' = [pc EXCEPT ![p] = "done"]
          /\ result' = [result EXCEPT ![p] = [imported |-> 0, skipped |-> 0]]
          /\ hist' = [hist EXCEPT ![p] =
                        Append(@, Outcome("done", [imported |-> 0, skipped |-> 0], <<>>, TRUE, FALSE))]
     ELSE /\ pc' = [pc EXCEPT ![p] = "query"]
          /\ result' = [result EXCEPT ![p] = NoResult]
          /\ UNCHANGED hist
  /\ UNCHANGED <<store, args>>
  /\ UNCHANGED <<pvars, uvars>>

(* one existence query answers; after the last one the import set is computed *)
Query(p) ==
  /\ pc[p] = "query"
  /\ LET hs == allHashes(args[p].transactions)
         chunk == slice(hs, i[p], i[p] + BATCH_SIZE)
         snap == getDocs(store[ColOf(args[p])], chunk)
         found == addFound(existingHashes[p], snap)
         iNext == i[p] + BATCH_SIZE
         imp == filterNew(args[p].transactions, found)
         sk == Len(args[p].transactions) - Len(imp)
         next == AfterQuery(iNext, Len(hs), Len(imp))
         cs == Append(calls[p], [op |-> "query", arg |-> chunk, ok |-> TRUE,
                                 found |-> addFound({}, snap)])
     IN  /\ existingHashes' = [existingHashes EXCEPT ![p] = found]
         /\ calls' = [calls EXCEPT ![p] = cs]
         /\ pc' = [pc EXCEPT ![p] = next]
         /\ IF next = "query"
            THEN /\ i' = [i EXCEPT ![p] = iNext]
                 /\ UNCHANGED <<toImport, skipped, result, hist>>
            ELSE /\ i' = [i EXCEPT ![p] = 0]
                 /\ toImport' = [toImport EXCEPT ![p] = imp]
                 /\ skipped' = [skipped EXCEPT ![p] = sk]
                 /\ IF next = "done"
                    THEN /\ result' = [result EXCEPT ![p] = [imported |-> Len(imp), skipped |-> sk]]
                         /\ Finish(p, "done", [imported |-> Len(imp), skipped |-> sk], cs)
                    ELSE UNCHANGED <<result, hist>>
  /\ UNCHANGED <<store, args, run, fresh, raced>>
  /\ UNCHANGED <<pvars, uvars>>

(* one write batch commits atomically *)
Commit(p) ==
  /\ pc[p] = "write"
  /\ LET chunk == slice(toImport[p], i[p], i[p] + WRITE_BATCH_SIZE)
         col == ColOf(args[p])
         iNext == i[p] + WRITE_BATCH_SIZE
         next == AfterCommit(iNext, Len(toImport[p]))
         cs == Append(calls[p], [op |-> "commit", arg |-> chunk, ok |-> TRUE, found |-> {}])
         res == [imported |-> Len(toImport[p]), skipped |-> skipped[p]]
     IN  /\ store' = [store EXCEPT ![col] = commitDocs(@, entries(args[p], chunk))]
         /\ calls' = [calls EXCEPT ![p] = cs]
         /\ i' = [i EXCEPT ![p] = iNext]
         /\ pc' = [pc EXCEPT ![p] = next]
         /\ raced' = [q \in Procs |->
                        IF q # p /\ Running(q) /\ ColOf(args[q]) = col THEN TRUE ELSE raced[q]]
         /\ IF next = "done"
            THEN /\ result' = [result EXCEPT ![p] = res]
                 /\ Finish(p, "done", res, cs)
            ELSE UNCHANGED <<result, hist>>
  /\ UNCHANGED <<args, existingHashes, toImport, skipped, run, fresh>>
  /\ UNCHANGED <<pvars, uvars>>

(* getDocs rejects: the exception leaves the function *)
QueryFail(p) ==
  /\ pc[p] = "query"
  /\ LET chunk == slice(allHashes(args[p].transactions), i[p], i[p] + BATCH_SIZE)
         cs == Append(calls[p], [op |-> "query", arg |-> chunk, ok |-> FALSE, found |-> {}])
     IN  /\ calls' = [calls EXCEPT ![p] = cs]
         /\ Finish(p, "failed", NoResult, cs)
         /\ pc' = [pc EXCEPT ![p] = OnReject("query", calls[p])]
  /\ UNCHANGED <<store, args, i, existingHashes, toImport, skipped, result, run, fresh, raced>>
  /\ UNCHANGED <<pvars, uvars>>

(* batch.commit rejects: nothing of the batch is written *)
CommitFail(p) ==
  /\ pc[p] = "write"
  /\ LET chunk == slice(toImport[p], i[p], i[p] + WRITE_BATCH_SIZE)
         cs == Append(calls[p], [op |-> "commit", arg |-> chunk, ok |-> FALSE, found |-> {}])
     IN  /\ calls' = [calls EXCEPT ![p] = cs]
         /\ Finish(p, "failed", NoResult, cs)
         /\ pc' = [pc EXCEPT ![p] = OnReject("write", calls[p])]
  /\ UNCHANGED <<store, args, i, existingHashes, toImport, skipped, result, run, fresh, raced>>
  /\ UNCHANGED <<pvars, uvars>>

(* the page is closed or the process dies between two awaits *)
Abort(p) ==
  /\ Running(p)
  /\ pc' = [pc EXCEPT ![p] = "aborted"]
  /\ Finish(p, "aborted", NoResult, calls[p])
  /\ UNCHANGED <<store, args, i, existingHashes, toImport, skipped, result, calls, run, fresh,
                  raced>>
  /\ UNCHANGED <<pvars, uvars>>

Next ==
  \E p \in Procs :
    \/ Call(p)
    \/ Query(p)
    \/ Commit(p)
    \/ QueryFail(p)
    \/ CommitFail(p)
    \/ Abort(p)

Spec == Init /\ [][Next]_vars

(* ---------------------------------------------------------------------- *)
(* The parsers as a state machine: a file is given, one call parses it    *)
(* ---------------------------------------------------------------------- *)
Absent == "<absent>"

Layout(hasValue, hasDebit, hasCredit, hasType) ==
  [dateIdx |-> 0, descIdx |-> 1, detailsIdx |-> -1, docIdx |-> -1,
   valueIdx |-> IF hasValue THEN 2 ELSE -1,
   debitIdx |-> IF hasDebit THEN 3 ELSE -1,
   creditIdx |-> IF hasCredit THEN 4 ELSE -1,
   typeIdx |-> IF hasType THEN 5 ELSE -1]

DateCells ==
  {"01/03/2024", "00/00/0000", "01/00/2024", "31/02/2024", "15/13/2024", "29/02/2024",
   "29/02/2023", "2024-03-01", "2024-03-01T10:00", "1/3/2024", "amanha", ""}
DescCells == {"Supermercado", "", "S A L D O", "Saldo Anterior", "SALDO DO DIA"}
ValueCells == {"", "-150,00", "1.112,00", "0", "1e999"}
DebitCells == {"", "10,00", "1e999"}
CreditCells == {"", "25,50", "1e999"}
TypeCells == {"", "Entrada", "Saída", "Outro"}

(* a valid row that follows the row under study *)
NextRow == <<"02/03/2024", "Padaria", "-20,00", "", "", "">>

(* one row with a valid date: every layout, description, amount and label *)
AmountFiles ==
  { [kind |-> "csv",
     hdr |-> Layout(hv, hd, hc, ht),
     rows |-> << <<"01/03/2024", ds, v, db, cr, ty>> >>] :
      hv \in BOOLEAN, hd \in BOOLEAN, hc \in BOOLEAN, ht \in BOOLEAN,
      ds \in DescCells, v \in ValueCells,
      db \in DebitCells, cr \in CreditCells, ty \in TypeCells }

(* a row with any date cell, followed or not by a valid row *)
DateFiles ==
  { [kind |-> "csv",
     hdr |-> Layout(TRUE, FALSE, FALSE, FALSE),
     rows |-> << <<dt, ds, "150,00", "", "", "">> >> \o more] :
      dt \in DateCells, ds \in {"Supermercado", "S A L D O"},
      more \in {<<>>, <<NextRow>>} }

CsvFiles == AmountFiles \cup DateFiles

Tags == {"DTPOSTED", "TRNAMT", "MEMO", "NAME", "FITID"}

FieldsOf(c) == [t \in {u \in Tags : c[u] # Absent} |-> c[t]]

(* a second block, complete and valid, that follows the block under study *)
NextBlock == [DTPOSTED |-> "20240405", TRNAMT |-> "7.00", MEMO |-> "Taxa", FITID |-> "F2"]

OfxFiles ==
  { [kind |-> "ofx", closed |-> cl,
     blocks |-> <<FieldsOf([DTPOSTED |-> dt, TRNAMT |-> am, MEMO |-> me,
                            NAME |-> na, FITID |-> fi])>> \o more] :
      cl \in BOOLEAN,
      dt \in {Absent, "20240301", "20240301120000", "2024", "2024031", "20241301"},
      am \in {Absent, "-10.00", "25,5", "abc", "1e999"},
      me \in {Absent, "Compra 123 loja"},
      na \in {Absent, "Loja", "Saldo Anterior", "Saldo do dia", "Saldo do Dia"},
      fi \in {Absent, "F1"},
      more \in {<<>>, <<NextBlock>>} }

InitParse ==
  /\ args = [p \in Procs |-> Arg("importLedgerEntries", "u1", "A", <<>>)]
  /\ InitRest
  /\ file = NoFile
  /\ lenient \in BOOLEAN
  /\ ppc = "ready"
  /\ out = NoOut
  /\ NoUi

(* parseBankStatementFile on a .csv file f *)
ParseCsv ==
  \E f \in CsvFiles :
    /\ ppc = "ready"
    /\ file' = f
    /\ out' = parseCsv(f.hdr, f.rows, lenient)
    /\ ppc' = "parsed"
    /\ UNCHANGED <<lenient, uvars>>
    /\ UNCHANGED ivars

(* parseBankStatementFile on an .ofx / .qfx file f *)
ParseOfx ==
  \E f \in OfxFiles :
    /\ ppc = "ready"
    /\ file' = f
    /\ out' = parseOfx(f.closed, f.blocks, lenient)
    /\ ppc' = IF out'.threw THEN "threw" ELSE "parsed"
    /\ UNCHANGED <<lenient, uvars>>
    /\ UNCHANGED ivars

(* statements in which some STMTTRN blocks carry their closing tag and others do not *)
MarkedOfxFiles ==
  { [kind |-> "ofxMarked", marks |-> <<m1, m2, m3>>, blocks |-> <<b1, b2, NextBlock>>] :
      m1 \in BOOLEAN, m2 \in BOOLEAN, m3 \in BOOLEAN,
      b1 \in { [DTPOSTED |-> "20240301", TRNAMT |-> "-10.00", MEMO |-> "Compra"],
               [DTPOSTED |-> "20240301", TRNAMT |-> "-10.00", NAME |-> "Saldo Anterior"],
               [DTPOSTED |-> "20240302", TRNAMT |-> "3.00", FITID |-> "F1"] },
      b2 \in { [DTPOSTED |-> "20240310", TRNAMT |-> "7.00"],
               [DTPOSTED |-> "20240310", TRNAMT |-> "7.00", MEMO |-> "Pix", FITID |-> "F9"] } }

(* parseBankStatementFile on an .ofx file f with closed and unclosed blocks *)
ParseOfxMarked ==
  \E f \in MarkedOfxFiles :
    /\ ppc = "ready"
    /\ file' = f
    /\ out' = parseOfxMarked(f.marks, f.blocks, lenient)
    /\ ppc' = IF out'.threw THEN "threw" ELSE "parsed"
    /\ UNCHANGED <<lenient, uvars>>
    /\ UNCHANGED ivars

NextParse == ParseCsv \/ ParseOfx \/ ParseOfxMarked

SpecParse == InitParse /\ [][NextParse]_vars

(* ---------------------------------------------------------------------- *)
(* CSV files given as text                                                 *)
(* ---------------------------------------------------------------------- *)
Join(ss, d) ==
  LET F[k \in 0..Len(ss)] ==
        IF k = 0 THEN "" ELSE IF k = 1 THEN ss[1] ELSE F[k - 1] \o d \o ss[k]
  IN  F[Len(ss)]

(* every double quote of s doubled *)
Doubled(s) ==
  LET F[j \in 0..Len(s)] ==
        IF j = 0 THEN ""
        ELSE F[j - 1] \o (IF Ch(s, j) = "\"" THEN "\"\"" ELSE Ch(s, j))
  IN  F[Len(s)]

(* a field as it is written in the file *)
Written1(f) ==
  IF f.style = "dq" THEN "\"" \o Doubled(f.text) \o "\""
  ELSE IF f.style = "sq" THEN "'" \o f.text \o "'"
  ELSE IF f.style = "padded" THEN " " \o f.text \o " "
  ELSE f.text

(* the styles a text can be written in with delimiter d *)
StylesOf(text, d) ==
  {"dq"}
  \cup (IF includes(text, "\"") \/ includes(text, "'") THEN {} ELSE {"sq"})
  \cup (IF includes(text, "\"") \/ includes(text, "'") \/ includes(text, d)
        THEN {} ELSE {"plain", "padded"})

HeaderNames ==
  { <<"Data", "Lançamento", "Valor">>, <<"Date", "Description", "Amount">>,
    <<"Data", "Info", "Valor">>, <<"Dia", "Histórico", "Valor">>,
    <<"Dia", "Info", "Valor">> }

DescTexts == {"Mercado", "a;b", "a,b", "diz \"oi\""}
ValueTexts == {"1.112,00", "-5,00"}

(* lines that are not a sequence of well-formed fields *)
OddLines == {"\"01/03/2024;Mercado;5,00", "01/03/2024", "   "}

FieldsText(fs, d) == Join([k \in 1..Len(fs) |-> Written1(fs[k])], d)

(* the ways of writing one of the texts as a field *)
FieldsFor(texts, d) ==
  UNION {{[text |-> t, style |-> st] : st \in StylesOf(t, d)} : t \in texts}

(* header line and one data line of well-formed fields, delimiter d *)
CsvTextsFor(d) ==
  { [kind |-> "csvtext", delim |-> d, names |-> ns, fields |-> <<f1, f2, f3>>,
     lines |-> <<Join(ns, d), FieldsText(<<f1, f2, f3>>, d)>>] :
      ns \in HeaderNames,
      f1 \in {[text |-> "01/03/2024", style |-> st] : st \in {"plain", "dq", "sq"}},
      f2 \in FieldsFor(DescTexts, d),
      f3 \in FieldsFor(ValueTexts, d) }

CsvTexts ==
  CsvTextsFor(";") \cup CsvTextsFor(",")
  \cup
  { [kind |-> "csvtext", delim |-> ";", names |-> ns, fields |-> <<>>,
     lines |-> <<Join(ns, ";")>> \o more] :
      ns \in HeaderNames,
      more \in {<<>>} \cup {<<l>> : l \in OddLines} \cup {<<"   ", l>> : l \in OddLines} }

InitCsvText ==
  /\ args = [p \in Procs |-> Arg("importLedgerEntries", "u1", "A", <<>>)]
  /\ InitRest
  /\ file = NoFile
  /\ lenient \in BOOLEAN
  /\ ppc = "ready"
  /\ out = NoOut
  /\ NoUi

(* parseBankStatementFile on the text f of a .csv file *)
ParseCsvText ==
  \E f \in CsvTexts :
    /\ ppc = "ready"
    /\ file' = f
    /\ out' = parseCsvText(f.lines, lenient)
    /\ ppc' = "parsed"
    /\ UNCHANGED <<lenient, uvars>>
    /\ UNCHANGED ivars

SpecCsvText == InitCsvText /\ [][ParseCsvText]_vars

(* ---------------------------------------------------------------------- *)
(* parseAmountToCents on amount cells                                      *)
(* ---------------------------------------------------------------------- *)
(* unsigned amount texts, each with the cents it denotes *)
AmountCases ==
  { [body |-> "1.234,56", cents |-> Fin(123456)],
    [body |-> "1234,56", cents |-> Fin(123456)],
    [body |-> "1234.56", cents |-> Fin(123456)],
    [body |-> "1.112,00", cents |-> Fin(111200)],
    [body |-> "1.000.000,00", cents |-> Fin(100000000)],
    [body |-> "1.234", cents |-> Fin(123400)],
    [body |-> "150,00", cents |-> Fin(15000)],
    [body |-> "12,5", cents |-> Fin(1250)],
    [body |-> "0,07", cents |-> Fin(7)],
    [body |-> "2,674", cents |-> Fin(267)],
    [body |-> ",5", cents |-> Fin(50)],
    [body |-> "7", cents |-> Fin(700)],
    [body |-> "0", cents |-> Fin(0)],
    [body |-> "1.234.5", cents |-> Fin(123)],
    [body |-> "1.23,4", cents |-> Fin(123)],
    [body |-> "1,234.56", cents |-> Fin(123)],
    [body |-> "12abc", cents |-> Fin(1200)],
    [body |-> "1e999", cents |-> Inf(1)],
    [body |-> "abc", cents |-> Fin(0)],
    [body |-> "", cents |-> Fin(0)] }

(* an amount cell: currency symbol, sign and spaces around an unsigned text *)
AmountTexts ==
  { [kind |-> "amount", sign |-> sg, body |-> c.body, cents |-> c.cents,
     raw |-> cur \o sg \o sp \o c.body \o end] :
      cur \in {"", "R$ "}, sg \in {"", "-"}, sp \in {"", " "}, end \in {"", " "},
      c \in AmountCases }

InitAmount ==
  /\ args = [p \in Procs |-> Arg("importLedgerEntries", "u1", "A", <<>>)]
  /\ InitRest
  /\ file = NoFile
  /\ lenient = FALSE
  /\ ppc = "ready"
  /\ out = NoOut
  /\ NoUi

(* parseAmountToCents on the cell f *)
ParseAmount ==
  \E f \in AmountTexts :
    /\ ppc = "ready"
    /\ file' = f
    /\ out' = [cents |-> parseAmountToCents(f.raw),
               negated |-> parseAmountToCents("-" \o f.raw)]
    /\ ppc' = "parsed"
    /\ UNCHANGED <<lenient, uvars>>
    /\ UNCHANGED ivars

SpecAmount == InitAmount /\ [][ParseAmount]_vars

(* ---------------------------------------------------------------------- *)
(* computeImportHash on dates, descriptions and amounts                    *)
(* ---------------------------------------------------------------------- *)
HashInputs ==
  { [kind |-> "hash", date |-> d, description |-> ds, amountCents |-> am] :
      d \in {"2024-03-01", "2024-12-31"},
      ds \in {"Mercado", "Padaria", "SALDO", "", "Pão de açúcar", "Taxa",
              "Compra loja", "Supermercado"},
      am \in {Fin(0), Fin(7), Fin(500), Fin(15000), Fin(111200), Fin(-111200),
              NaN, Inf(1)} }

InitHash ==
  /\ args = [p \in Procs |-> Arg("importLedgerEntries", "u1", "A", <<>>)]
  /\ InitRest
  /\ file = NoFile
  /\ lenient = FALSE
  /\ ppc = "ready"
  /\ out = NoOut
  /\ NoUi

(* computeImportHash on the input f; lanes are h1 and h2 before the encoding *)
ComputeHash ==
  \E f \in HashInputs :
    /\ ppc = "ready"
    /\ file' = f
    /\ out' = [hash |-> computeImportHash(f.date, f.description, f.amountCents),
               lanes |-> hashLanes(hashText(f.date, f.description, f.amountCents))]
    /\ ppc' = "parsed"
    /\ UNCHANGED <<lenient, uvars>>
    /\ UNCHANGED ivars

SpecHash == InitHash /\ [][ComputeHash]_vars

SpecBulk == InitBulk /\ [][Next]_vars

(* ---------------------------------------------------------------------- *)
(* The import page (ImportBankStatement): its state hooks, the file       *)
(* handlers whose parse is pending and the import whose promise is        *)
(* pending.  The file input stays enabled while either is pending.        *)
(* ---------------------------------------------------------------------- *)
MaxInFlight == 2

NoneFoundMessage == "Nenhuma transacao encontrada no arquivo"
ReadErrorMessage == "Erro ao ler o arquivo"
ImportErrorMessage == "Erro ao importar os lancamentos"

NoImport == [pending |-> FALSE, accountId |-> "", transactions |-> <<>>]

(* what parseBankStatementFile settles with for the chosen file *)
ParseOutcomes ==
  { [ok |-> FALSE, hs |-> <<>>], [ok |-> TRUE, hs |-> <<>>],
    [ok |-> TRUE, hs |-> <<1>>], [ok |-> TRUE, hs |-> <<1, 2>>] }

PageOf(acc) ==
  [ accountId |-> acc, transactions |-> <<>>, fileName |-> "", parseError |-> "",
    importing |-> FALSE, result |-> NoResult, picks |-> <<>>, imp |-> NoImport,
    last |-> [step |-> "mounted"] ]

InitPage ==
  /\ args = [p \in Procs |-> Arg("importLedgerEntries", "u1", "A", <<>>)]
  /\ InitRest
  /\ NoParse
  /\ \E acc \in {"", "A"} : page = PageOf(acc)
  /\ recur = NoRecur

RemoveAt(s, k) == SubSeq(s, 1, k - 1) \o SubSeq(s, k + 1, Len(s))

(* handleFileChange with no file in the event: the three resets, then return *)
FileDialogCancelled ==
  /\ page # NoPage
  /\ page' = [page EXCEPT !.parseError = "", !.transactions = <<>>, !.result = NoResult,
                          !.last = [step |-> "cleared"]]
  /\ UNCHANGED <<ivars, pvars, recur>>

(* handleFileChange up to its await: the resets, the file name, the parse started *)
onFileChosen(pg, f) ==
  [pg EXCEPT !.parseError = "", !.transactions = <<>>, !.result = NoResult,
             !.fileName = f.name, !.picks = Append(@, f),
             !.last = [step |-> "chosen"]]

HandleFileChange ==
  /\ page # NoPage
  /\ Len(page.picks) < MaxInFlight
  /\ \E o \in ParseOutcomes :
       page' = onFileChosen(page, [name |-> "extrato.csv", parsed |-> o])
  /\ UNCHANGED <<ivars, pvars, recur>>

(* handleFileChange after its await: the branch the parse outcome selects *)
onParseSettled(pg, k) ==
  Bind(pg.picks[k].parsed, LAMBDA o :
    IF ~o.ok
      THEN [pg EXCEPT !.parseError = ReadErrorMessage, !.picks = RemoveAt(@, k),
                      !.last = [step |-> "parsed", parsed |-> o]]
    ELSE IF Len(o.hs) = 0
      THEN [pg EXCEPT !.parseError = NoneFoundMessage, !.picks = RemoveAt(@, k),
                      !.last = [step |-> "parsed", parsed |-> o]]
    ELSE [pg EXCEPT !.transactions = ItemsOf("ledgerEntries", o.hs),
                    !.picks = RemoveAt(@, k),
                    !.last = [step |-> "parsed", parsed |-> o]])

ParseSettled ==
  /\ page # NoPage
  /\ \E k \in 1..Len(page.picks) : page' = onParseSettled(page, k)
  /\ UNCHANGED <<ivars, pvars, recur>>

(* handleImport returns at once without an account or without staged transactions *)
startsImport(pg) == pg.accountId # "" /\ Len(pg.transactions) # 0

(* the confirm button: rendered with staged transactions, disabled while importing *)
(* or without an account                                                          *)
ConfirmEnabled(pg) == Len(pg.transactions) > 0 /\ ~pg.importing /\ pg.accountId # ""

(* handleImport up to its await *)
onImportClicked(pg) ==
  IF startsImport(pg)
    THEN [pg EXCEPT !.importing = TRUE, !.result = NoResult,
                    !.imp = [pending |-> TRUE, accountId |-> pg.accountId,
                             transactions |-> pg.transactions],
                    !.last = [step |-> "importStarted"]]
    ELSE [pg EXCEPT !.last = [step |-> "importDeclined"]]

HandleImport ==
  /\ page # NoPage
  /\ ~page.importing
  /\ page' = onImportClicked(page)
  /\ UNCHANGED <<ivars, pvars, recur>>

(* the records importLedgerEntries writes for the call of the page *)
pageToImport(docs, imp) ==
  filterNew(imp.transactions, addFound({}, getDocs(docs, allHashes(imp.transactions))))

pageResult(docs, imp) ==
  Bind(Len(pageToImport(docs, imp)), LAMBDA n :
    [imported |-> n, skipped |-> Len(imp.transactions) - n])

(* the success branch also keeps the staged transactions *)
onImportResolved_keepStaged(pg, res) ==
  [pg EXCEPT !.result = res, !.fileName = "",
             !.importing = FALSE, !.imp = NoImport,
             !.last = [step |-> "importResolved", res |-> res]]

(* handleImport after its await, success: result shown, staging and file name cleared *)
onImportResolved(pg, res) ==
  [pg EXCEPT !.result = res, !.transactions = <<>>, !.fileName = "",
             !.importing = FALSE, !.imp = NoImport,
             !.last = [step |-> "importResolved", res |-> res]]

ImportResolved ==
  /\ page # NoPage
  /\ page.imp.pending
  /\ LET col == ledgerCol("u1")
         a == [userId |-> "u1", accountId |-> page.imp.accountId]
     IN  /\ store' = [store EXCEPT ![col] =
                        commitDocs(@, entries(a, pageToImport(store[col], page.imp)))]
         /\ page' = onImportResolved(page, pageResult(store[col], page.imp))
  /\ UNCHANGED <<args, pc, i, existingHashes, toImport, skipped, result,
                 calls, run, fresh, raced, hist, pvars, recur>>

(* handleImport after its await, failure: the error message, then finally *)
onImportRejected(pg) ==
  [pg EXCEPT !.parseError = ImportErrorMessage,
             !.importing = FALSE, !.imp = NoImport,
             !.last = [step |-> "importRejected", staged |-> pg.transactions]]

ImportRejected ==
  /\ page # NoPage
  /\ page.imp.pending
  /\ page' = onImportRejected(page)
  /\ UNCHANGED <<ivars, pvars, recur>>

NextPage ==
  \/ FileDialogCancelled
  \/ HandleFileChange
  \/ ParseSettled
  \/ HandleImport
  \/ ImportResolved
  \/ ImportRejected

SpecPage == InitPage /\ [][NextPage]_vars

(* ---------------------------------------------------------------------- *)
(* A statement parsed and its transactions imported one per call: two    *)
(* rows of the same day, description and value that differ in what the   *)
(* fingerprint leaves out                                                *)
(* ---------------------------------------------------------------------- *)
PairLayout ==
  [dateIdx |-> 0, descIdx |-> 1, detailsIdx |-> 2, docIdx |-> 3,
   valueIdx |-> 4, debitIdx |-> -1, creditIdx |-> -1, typeIdx |-> 5]

PairFiles ==
  { [kind |-> "csvPair", hdr |-> PairLayout,
     rows |-> << <<"01/03/2024", "Mercado", "", "", "150,00", "">>,
                 <<"01/03/2024", "Mercado", d, n, v, t>> >>] :
      d \in {"", "loja 2"}, n \in {"", "77"}, v \in {"150,00", "-150,00"},
      t \in {"", "Saida"} }
  \cup
  { [kind |-> "ofxPair", closed |-> cl,
     blocks |-> << [DTPOSTED |-> "20240301", TRNAMT |-> "25.00", MEMO |-> "Pix", FITID |-> "F1"],
                   FieldsOf([DTPOSTED |-> "20240301", TRNAMT |-> am, MEMO |-> "Pix",
                             NAME |-> Absent, FITID |-> fi]) >>] :
      cl \in BOOLEAN, am \in {"25.00", "-25.00"}, fi \in {Absent, "F1", "F2"} }

InitDedup ==
  /\ args = [p \in Procs |-> Arg("importLedgerEntries", "u1", "A", <<>>)]
  /\ InitRest
  /\ file = NoFile
  /\ lenient \in BOOLEAN
  /\ ppc = "ready"
  /\ out = NoOut
  /\ NoUi

(* parseBankStatementFile on the statement *)
ParsePair ==
  \E f \in PairFiles :
    /\ ppc = "ready"
    /\ file' = f
    /\ out' = IF f.kind = "csvPair" THEN parseCsv(f.hdr, f.rows, lenient)
              ELSE parseOfx(f.closed, f.blocks, lenient)
    /\ ppc' = "parsed"
    /\ UNCHANGED <<lenient, uvars>>
    /\ UNCHANGED ivars

(* the caller takes one parsed transaction as the list of its next import *)
Stage ==
  \E k \in 1..Len(out.transactions) :
    /\ ppc = "parsed"
    /\ pc["p1"] \in {"idle", "done"}
    /\ Invocations < MaxRuns
    /\ args["p1"].transactions # <<out.transactions[k]>>
    /\ args' = [args EXCEPT !["p1"].transactions = <<out.transactions[k]>>]
    /\ UNCHANGED <<store, pc, i, existingHashes, toImport, skipped, result,
                   calls, run, fresh, raced, hist, pvars, uvars>>

NextDedup ==
  \/ ParsePair
  \/ Stage
  \/ Call("p1")
  \/ Query("p1")
  \/ Commit("p1")

SpecDedup == InitDedup /\ [][NextDedup]_vars

(* ---------------------------------------------------------------------- *)
(* The recurring-rules page: generateEntries over the loaded rules, one  *)
(* action per await, against the ledger collection of the user           *)
(* ---------------------------------------------------------------------- *)
MaxGen == 2

(* new Date(year, month, 0).getDate(): the last day of the month *)
lastDayOf(year, month) == DaysInMonth(year, month)

(* where('date', '>=', start), where('date', '<', end) of getGeneratedEntryForRule *)
inMonth(date, year, month) == date.y = year /\ date.m = month /\ date.d >= 1

(* snap.docs of the query of getGeneratedEntryForRule *)
getGeneratedEntryForRule(docs, ruleId, year, month) ==
  SelectSeq(docs, LAMBDA d :
    /\ "recurringRuleId" \in DOMAIN d
    /\ d.recurringRuleId = ruleId
    /\ inMonth(d.date, year, month))

(* the day taken without the clamp *)
generatedDay_unclamped(rule, year, month) ==
  IF "dayOfMonth" \in DOMAIN rule THEN rule.dayOfMonth ELSE 1

(* Math.min(rule.dayOfMonth ?? 1, new Date(year, month, 0).getDate()) *)
generatedDay(rule, year, month) ==
  Min(IF "dayOfMonth" \in DOMAIN rule THEN rule.dayOfMonth ELSE 1, lastDayOf(year, month))

(* new Date(year, month - 1, day): a day past the end of the month rolls over *)
dateOf(year, month, day) ==
  IF day <= lastDayOf(year, month) THEN [y |-> year, m |-> month, d |-> day]
  ELSE IF month = 12 THEN [y |-> year + 1, m |-> 1, d |-> day - lastDayOf(year, month)]
  ELSE [y |-> year, m |-> month + 1, d |-> day - lastDayOf(year, month)]

(* the document addLedgerEntry writes for a rule *)
generatedEntry(rule, year, month) ==
  [ userId |-> "u1", accountId |-> rule.accountId, type |-> rule.type,
    amountCents |-> rule.amountCents, description |-> rule.description,
    date |-> dateOf(year, month, generatedDay(rule, year, month)),
    recurring |-> TRUE, recurringRuleId |-> rule.id ]

(* for (const rule of loadedRules) { if (!rule.active) continue; ... }: *)
(* the index of the first active rule from k on, 0 when the loop ends   *)
nextActive(rules, k) ==
  IF \E j \in k..Len(rules) : rules[j].active
  THEN CHOOSE j \in k..Len(rules) :
         rules[j].active /\ \A l \in k..(j - 1) : ~rules[l].active
  ELSE 0

RuleOf(id, active, days) ==
  { [id |-> id, accountId |-> "A", type |-> "expense", amountCents |-> 1000,
     description |-> "Aluguel", active |-> a, dayOfMonth |-> d] :
      a \in active, d \in days }
  \cup { [id |-> id, accountId |-> "A", type |-> "expense", amountCents |-> 1000,
          description |-> "Anuidade", active |-> a] : a \in active }

RuleLists ==
  { <<r1>> : r1 \in RuleOf("r1", BOOLEAN, {1, 29, 31}) }
  \cup { <<r1, r2>> : r1 \in RuleOf("r1", BOOLEAN, {31}), r2 \in RuleOf("r2", BOOLEAN, {30}) }

Months == { <<2024, 1>>, <<2024, 2>>, <<2023, 2>>, <<2024, 4>>, <<2024, 12>> }

(* the ledger before the page is opened: empty, an entry generated for r1 this *)
(* month or the month before, or an entry typed in by the user                 *)
LedgersBefore(year, month) ==
  { <<>>,
    << [ userId |-> "u1", accountId |-> "A", type |-> "expense", amountCents |-> 1000,
         description |-> "Aluguel", date |-> [y |-> year, m |-> month, d |-> 1],
         recurring |-> TRUE, recurringRuleId |-> "r1" ] >>,
    << [ userId |-> "u1", accountId |-> "A", type |-> "expense", amountCents |-> 1000,
         description |-> "Aluguel",
         date |-> IF month = 1 THEN [y |-> year - 1, m |-> 12, d |-> 31]
                  ELSE [y |-> year, m |-> month - 1, d |-> 28],
         recurring |-> TRUE, recurringRuleId |-> "r1" ] >>,
    << [ userId |-> "u1", accountId |-> "A", type |-> "expense", amountCents |-> 1000,
         description |-> "Aluguel", date |-> [y |-> year, m |-> month, d |-> 5] ] >> }

InitRecur ==
  /\ args = [p \in Procs |-> Arg("importLedgerEntries", "u1", "A", <<>>)]
  /\ \E rules \in RuleLists, ym \in Months :
     \E before \in LedgersBefore(ym[1], ym[2]) :
       /\ store = [c \in Cols |-> IF c = ledgerCol("u1") THEN before ELSE <<>>]
       /\ recur = [ rules |-> rules, year |-> ym[1], month |-> ym[2], pc |-> "idle",
                    k |-> 0, runs |-> 0, completed |-> 0,
                    initial |-> before, atStart |-> before ]
  /\ pc = [p \in Procs |-> "idle"]
  /\ i = [p \in Procs |-> 0]
  /\ existingHashes = [p \in Procs |-> {}]
  /\ toImport = [p \in Procs |-> <<>>]
  /\ skipped = [p \in Procs |-> 0]
  /\ result = [p \in Procs |-> NoResult]
  /\ calls = [p \in Procs |-> <<>>]
  /\ run = [p \in Procs |-> 0]
  /\ fresh = [p \in Procs |-> TRUE]
  /\ raced = [p \in Procs |-> FALSE]
  /\ hist = [p \in Procs |-> <<>>]
  /\ NoParse
  /\ page = NoPage

(* the loop moves on to the next active rule, or generateEntries returns *)
advance(rc, k) ==
  Bind(nextActive(rc.rules, k), LAMBDA j :
    IF j = 0 THEN [rc EXCEPT !.pc = "done", !.k = 0, !.completed = @ + 1]
    ELSE [rc EXCEPT !.pc = "query", !.k = j])

(* the page is opened: generateEntries(loadedRules) up to its first await *)
GenerateEntries ==
  /\ recur # NoRecur
  /\ recur.pc \in {"idle", "done", "failed"}
  /\ recur.runs < MaxGen
  /\ recur' = advance([recur EXCEPT !.runs = @ + 1, !.atStart = store[ledgerCol("u1")]], 1)
  /\ UNCHANGED <<ivars, pvars, page>>

(* getGeneratedEntryForRule answers *)
GeneratedAnswers ==
  /\ recur # NoRecur
  /\ recur.pc = "query"
  /\ recur' =
       IF getGeneratedEntryForRule(store[ledgerCol("u1")], recur.rules[recur.k].id,
                                   recur.year, recur.month) # <<>>
       THEN advance(recur, recur.k + 1)
       ELSE [recur EXCEPT !.pc = "add"]
  /\ UNCHANGED <<ivars, pvars, page>>

(* addLedgerEntry answers *)
EntryAdded ==
  /\ recur # NoRecur
  /\ recur.pc = "add"
  /\ store' = [store EXCEPT ![ledgerCol("u1")] =
                 Append(@, generatedEntry(recur.rules[recur.k], recur.year, recur.month))]
  /\ recur' = advance(recur, recur.k + 1)
  /\ UNCHANGED <<args, pc, i, existingHashes, toImport, skipped, result,
                 calls, run, fresh, raced, hist, pvars, page>>

(* getDocs or addDoc rejects: the exception leaves generateEntries *)
GenerateFails ==
  /\ recur # NoRecur
  /\ recur.pc \in {"query", "add"}
  /\ recur' = [recur EXCEPT !.pc = "failed", !.k = 0]
  /\ UNCHANGED <<ivars, pvars, page>>

NextRecur ==
  \/ GenerateEntries
  \/ GeneratedAnswers
  \/ EntryAdded
  \/ GenerateFails

SpecRecur == InitRecur /\ [][NextRecur]_vars

TypeOK ==
  /\ \A p \in Procs : pc[p] \in {"idle", "query", "write", "done", "failed", "aborted"}
  /\ \A p \in Procs : run[p] \in 0..MaxRuns

(* ---------------------------------------------------------------------- *)
(* Helpers of the properties                                               *)
(* ---------------------------------------------------------------------- *)
Distinct(hs) == Cardinality(RangeOf(hs)) = Len(hs)

CountHash(docs, h) == Cardinality({k \in 1..Len(docs) : docs[k].importHash = h})

Concat(ss) ==
  LET F[k \in 0..Len(ss)] == IF k = 0 THEN <<>> ELSE F[k - 1] \o ss[k]
  IN  F[Len(ss)]

ArgsOf(cs) == [k \in 1..Len(cs) |-> cs[k].arg]

Queries(cs) == SelectSeq(cs, LAMBDA c : c.op = "query")
Commits(cs) == SelectSeq(cs, LAMBDA c : c.op = "commit")
OkCommits(cs) == SelectSeq(cs, LAMBDA c : c.op = "commit" /\ c.ok)

(* the records the current invocation has persisted, in order *)
WrittenRecords(cs) == Concat(ArgsOf(OkCommits(cs)))

(* the hashes the existence queries of the current invocation reported *)
FoundByQueries(cs) == UNION {cs[k].found : k \in 1..Len(cs)}

HashesOf(p) == allHashes(args[p].transactions)

Res(imp, sk) == [imported |-> imp, skipped |-> sk]

(* ---------------------------------------------------------------------- *)
(* C1: idempotent re-import.  For a list of N records with pairwise        *)
(* distinct importHash: a call that begins when the collection holds none  *)
(* of them, is not raced and completes returns {imported: N, skipped: 0};  *)
(* every later completed call with the same list returns                   *)
(* {imported: 0, skipped: N} and writes no record.                         *)
(* ---------------------------------------------------------------------- *)
C1_IdempotentReimport ==
  \A p \in Procs :
    LET N == Len(args[p].transactions)
        h == hist[p]
    IN  Distinct(HashesOf(p)) =>
          /\ \A k \in 1..Len(h) :
                (h[k].status = "done" /\ h[k].fresh /\ ~h[k].raced)
                  => h[k].result = Res(N, 0)
          /\ \A k, l \in 1..Len(h) :
                (k < l /\ h[k].status = "done" /\ h[l].status = "done")
                  => (h[l].result = Res(0, N) /\ h[l].written = 0)

C1_Witness ==
  \E p \in Procs :
    /\ Len(args[p].transactions) = 2
    /\ Distinct(HashesOf(p))
    /\ Len(hist[p]) = 2
    /\ hist[p][1].status = "done" /\ hist[p][1].fresh /\ ~hist[p][1].raced
    /\ hist[p][1].result = Res(2, 0)
    /\ hist[p][2].status = "done"
    /\ hist[p][2].result = Res(0, 2)

(* ---------------------------------------------------------------------- *)
(* C2: duplicates within one import are caught.  When the list holds two   *)
(* or more records with the same importHash and the collection did not     *)
(* hold that hash, the completed call persists exactly one record with     *)
(* that hash and counts the others as skipped.                             *)
(* ---------------------------------------------------------------------- *)
C2_DuplicatesCaught ==
  \A p \in Procs :
    (pc[p] = "done" /\ fresh[p] /\ ~raced[p]) =>
      /\ \A h \in RangeOf(HashesOf(p)) : CountHash(WrittenRecords(calls[p]), h) = 1
      /\ result[p].skipped =
           Len(args[p].transactions) - Cardinality(RangeOf(HashesOf(p)))

(* ---------------------------------------------------------------------- *)
(* C3: for every completed call imported + skipped is the number of        *)
(* records passed in, skipped is the number of passed records whose hash   *)
(* the existence queries found, imported is the number of records the      *)
(* call wrote.                                                             *)
(* ---------------------------------------------------------------------- *)
C3_Counts ==
  \A p \in Procs :
    pc[p] = "done" =>
      LET recs == args[p].transactions
          found == FoundByQueries(calls[p])
      IN  /\ result[p].imported + result[p].skipped = Len(recs)
          /\ result[p].skipped =
               Cardinality({k \in 1..Len(recs) : recs[k].importHash \in found})
          /\ result[p].imported = Written(calls[p])

C3_Witness ==
  \E p \in Procs :
    /\ pc[p] = "done"
    /\ result[p].imported >= 1
    /\ result[p].skipped >= 1
    /\ Written(calls[p]) = result[p].imported

(* ---------------------------------------------------------------------- *)
(* C4: within one invocation every existence query, over all chunks of    *)
(* the candidate hashes, has completed before the first write batch is     *)
(* committed, and no query follows a write.                                *)
(* ---------------------------------------------------------------------- *)
C4_QueriesBeforeWrites ==
  \A p \in Procs :
    \A k \in 1..Len(calls[p]) :
      calls[p][k].op = "commit" =>
        /\ \A l \in k..Len(calls[p]) : calls[p][l].op = "commit"
        /\ Concat(ArgsOf(Queries(SubSeq(calls[p], 1, k - 1)))) = HashesOf(p)

C4_Witness ==
  \E p \in Procs :
    /\ Len(Queries(calls[p])) >= 2
    /\ Len(OkCommits(calls[p])) >= 2

(* ---------------------------------------------------------------------- *)
(* C5: no store call exceeds the store's limits.  Every existence query    *)
(* carries between 1 and 30 fingerprints and the queries together carry    *)
(* every candidate fingerprint; every write batch holds between 1 and 500  *)
(* records and the batches together are the import set, in list order.     *)
(* ---------------------------------------------------------------------- *)
C5_StoreLimits ==
  \A p \in Procs :
    /\ \A k \in 1..Len(calls[p]) :
         /\ calls[p][k].op = "query" => Len(calls[p][k].arg) \in 1..30
         /\ calls[p][k].op = "commit" => Len(calls[p][k].arg) \in 1..500
    /\ (pc[p] \in {"write", "done"})
         => Concat(ArgsOf(Queries(calls[p]))) = HashesOf(p)
    /\ (pc[p] = "done")
         => /\ Concat(ArgsOf(Commits(calls[p]))) = toImport[p]
            /\ Bind(FoundByQueries(calls[p]), LAMBDA found :
                 toImport[p] = SelectSeq(args[p].transactions,
                                         LAMBDA t : t.importHash \notin found))

C5_Witness ==
  \E p \in Procs :
    /\ pc[p] = "done"
    /\ Len(Queries(calls[p])) >= 2
    /\ Len(Commits(calls[p])) >= 2
    /\ \E k \in 1..Len(calls[p]) : Len(calls[p][k].arg) = 500
    /\ \E k \in 1..Len(calls[p]) : calls[p][k].op = "query" /\ Len(calls[p][k].arg) = 30

(* ---------------------------------------------------------------------- *)
(* C6: resume after abort.  For a list with pairwise distinct hashes and   *)
(* no other import: when the invocations before a completed one were all   *)
(* aborted (after any number of committed write batches), the collection   *)
(* holds exactly one record for every fingerprint of the list (as many    *)
(* records as the list has, carrying exactly the list's fingerprints) and  *)
(* the completed re-run reports as skipped exactly the records committed   *)
(* before the aborts.                                                      *)
(* ---------------------------------------------------------------------- *)
WrittenBefore(h, l) ==
  LET F[k \in 0..(l - 1)] == IF k = 0 THEN 0 ELSE F[k - 1] + h[k].written
  IN  F[l - 1]

C6_ResumeAfterAbort ==
  \A p \in Procs :
    ((\A q \in Others(p) : run[q] = 0) /\ Distinct(HashesOf(p))) =>
      \A l \in 2..Len(hist[p]) :
        (hist[p][l].status = "done" /\ \A k \in 1..(l - 1) : hist[p][k].status = "aborted")
          => /\ RangeOf(allHashes(store[ColOf(args[p])])) = RangeOf(HashesOf(p))
             /\ Len(store[ColOf(args[p])]) = Len(args[p].transactions)
             /\ hist[p][l].result.skipped = WrittenBefore(hist[p], l)

C6_Witness ==
  \E p \in Procs :
    /\ \A q \in Others(p) : run[q] = 0
    /\ Len(hist[p]) = 2
    /\ hist[p][1].status = "aborted"
    /\ hist[p][1].written = 500
    /\ hist[p][2].status = "done"
    /\ hist[p][2].result = Res(1, 500)

(* ---------------------------------------------------------------------- *)
(* C7: the race of two concurrent imports.  When two completed imports     *)
(* into the same collection share a fingerprint that neither existence     *)
(* check found, the collection holds (at least) two records with that      *)
(* importHash and both calls wrote it and count it as imported; such a     *)
(* state is reachable from a collection that did not hold the fingerprint. *)
(* ---------------------------------------------------------------------- *)
C7_RaceDuplicates ==
  \A p, q \in Procs :
    (p # q /\ ColOf(args[p]) = ColOf(args[q]) /\ pc[p] = "done" /\ pc[q] = "done") =>
      \A h \in RangeOf(HashesOf(p)) \cap RangeOf(HashesOf(q)) :
        (h \notin existingHashes[p] /\ h \notin existingHashes[q]) =>
          /\ CountHash(store[ColOf(args[p])], h) >= 2
          /\ CountHash(WrittenRecords(calls[p]), h) >= 1
          /\ CountHash(WrittenRecords(calls[q]), h) >= 1
          /\ result[p].imported >= 1
          /\ result[q].imported >= 1

C7_Witness ==
  \E p, q \in Procs :
    /\ p # q /\ ColOf(args[p]) = ColOf(args[q])
    /\ pc[p] = "done" /\ pc[q] = "done"
    /\ fresh[p] /\ fresh[q]
    /\ HashesOf(p) = <<1>> /\ HashesOf(q) = <<1>>
    /\ result[p] = Res(1, 0) /\ result[q] = Res(1, 0)
    /\ CountHash(store[ColOf(args[p])], 1) = 2

(* ---------------------------------------------------------------------- *)
(* C8: imports for different accounts share no state.  A fingerprint an    *)
(* import treats as already seen is stored under the import's own account: *)
(* a fingerprint stored only under another account of the user does not    *)
(* make the import skip it.                                                *)
(* ---------------------------------------------------------------------- *)
C8_AccountsIndependent ==
  \A p \in Procs :
    \A h \in existingHashes[p] :
      \E k \in 1..Len(store[ColOf(args[p])]) :
        /\ store[ColOf(args[p])][k].importHash = h
        /\ store[ColOf(args[p])][k].accountId = args[p].accountId

(* ---------------------------------------------------------------------- *)
(* C9: a store failure is propagated and not retried.  Only the last store *)
(* call of an invocation can be a failed one; a failed invocation returns  *)
(* no counts, its committed batches stay in the collection, and until the  *)
(* caller starts a new invocation it issues no further store call.         *)
(* ---------------------------------------------------------------------- *)
C9_State ==
  \A p \in Procs :
    /\ \A k \in 1..(Len(calls[p]) - 1) : calls[p][k].ok
    /\ (pc[p] = "failed") =>
         /\ result[p] = NoResult
         /\ Len(calls[p]) >= 1
         /\ ~calls[p][Len(calls[p])].ok
         /\ hist[p][Len(hist[p])].status = "failed"
         /\ hist[p][Len(hist[p])].result = NoResult
    /\ (Len(calls[p]) >= 1 /\ ~calls[p][Len(calls[p])].ok) => pc[p] = "failed"
    /\ \A t \in RangeOf(WrittenRecords(calls[p])) :
         entry(args[p], t) \in RangeOf(store[ColOf(args[p])])

C9_Step ==
  \A p \in Procs :
    (pc[p] = "failed" /\ run'[p] = run[p]) =>
      /\ pc'[p] = "failed"
      /\ calls'[p] = calls[p]
      /\ result'[p] = result[p]

C9_FailurePropagated == [](C9_State) /\ [][C9_Step]_vars

C9_Witness ==
  \E p \in Procs :
    /\ pc[p] = "failed"
    /\ Len(OkCommits(calls[p])) >= 1
    /\ calls[p][Len(calls[p])].op = "commit"
    /\ Len(store[ColOf(args[p])]) >= 500

(* ---------------------------------------------------------------------- *)
(* C10: every transaction emitted by parseCsv or parseOfx has              *)
(* amountCents >= 0 and a type that is income or expense, whatever the     *)
(* signed-amount, debit, credit and type-label cells hold.                 *)
(* ---------------------------------------------------------------------- *)
C10_NonNegativeTyped ==
  ppc = "parsed" =>
    \A k \in 1..Len(out.transactions) :
      /\ GeZero(out.transactions[k].amountCents)
      /\ out.transactions[k].type \in {"income", "expense"}

(* ---------------------------------------------------------------------- *)
(* C11: the parsers never throw.  For every input parseCsv and parseOfx    *)
(* return a (possibly empty) result: no call ends in an exception, not     *)
(* even for a date field that does not denote a valid calendar date.       *)
(* ---------------------------------------------------------------------- *)
C11_NeverThrows == ppc # "threw"

(* ---------------------------------------------------------------------- *)
(* C12: an unrecognized CSV structure is an empty result, not an error.    *)
(* When no header names the date role, or none names the description role, *)
(* or the file has fewer than two non-empty lines, parseCsv returns zero   *)
(* transactions and zero balances, whatever the data rows contain.         *)
(* ---------------------------------------------------------------------- *)
NamesRole(names, prefixes) ==
  \E k \in 1..Len(names) : \E p \in prefixes : startsWith(norm(names[k]), p)

NonBlank(rawLines) ==
  Cardinality({k \in 1..Len(rawLines) : trim(rawLines[k]) # ""})

Unrecognized(f) ==
  \/ ~NamesRole(f.names, {"data", "date", "dt"})
  \/ ~NamesRole(f.names, {"descri", "histor", "memo", "lanc", "descr", "desc"})
  \/ NonBlank(f.lines) < 2

C12_UnrecognizedIsEmpty ==
  (ppc = "parsed" /\ file.kind = "csvtext" /\ Unrecognized(file))
    => (out.transactions = <<>> /\ out.balances = <<>>)

C12_Witness ==
  /\ ppc = "parsed" /\ file.kind = "csvtext"
  /\ file.names = <<"Data", "Info", "Valor">>
  /\ file.fields = <<[text |-> "01/03/2024", style |-> "plain"],
                     [text |-> "Mercado", style |-> "plain"],
                     [text |-> "-5,00", style |-> "plain"]>>
  /\ out.rows = <<<<"01/03/2024", "Mercado", "-5,00">>>>
  /\ out.transactions = <<>> /\ out.balances = <<>>

(* ---------------------------------------------------------------------- *)
(* C13: classification of balance rows.  A row with a valid date whose     *)
(* description starts with "Saldo Anterior" or "Saldo do dia" (in any      *)
(* letter case) gives neither a transaction nor a balance; a row whose     *)
(* description is the letter-spaced "S A L D O" gives exactly one balance  *)
(* and no transaction; a row never gives both a transaction and a balance. *)
(* ---------------------------------------------------------------------- *)
OneRow(f) == f.kind = "csv" /\ Len(f.rows) = 1

IsMarkerText(s) ==
  \/ toLowerCase(Sub(s, 1, 14)) = "saldo anterior"
  \/ toLowerCase(Sub(s, 1, 12)) = "saldo do dia"

LabelOf(f) == IF f.hdr.typeIdx = -1 THEN "" ELSE f.rows[1][6]

SignedAmount(f) == csvAmount(f.hdr, f.rows[1])

C14_TypeResolution ==
  (ppc = "parsed" /\ OneRow(file) /\ Len(out.transactions) = 1) =>
    LET type == out.transactions[1].type
        label == LabelOf(file)
        amount == SignedAmount(file)
    IN  /\ label = "Entrada" => type = "income"
        /\ label = "Saída" => type = "expense"
        /\ (label \in {"", "Outro"} /\ amount.k # "nan" /\ amount.v >= 0) => type = "income"
        /\ (label \in {"", "Outro"} /\ amount.k # "nan" /\ amount.v < 0) => type = "expense"

C14_Witness ==
  /\ ppc = "parsed" /\ OneRow(file) /\ Len(out.transactions) = 1
  /\ LabelOf(file) = "Entrada"
  /\ SignedAmount(file) = Fin(-15000)
  /\ out.transactions[1].type = "income"
  /\ out.transactions[1].amountCents = Fin(15000)

(* ---- C15 ---------------------------------------------------------------- *)
(* what a result says of its transactions: date, description, amount, type, *)
(* import hash                                                               *)
Emitted(o) ==
  [k \in 1..Len(o.transactions) |->
     [date |-> o.transactions[k].date,
      description |-> o.transactions[k].description,
      amountCents |-> o.transactions[k].amountCents,
      type |-> o.transactions[k].type,
      importHash |-> o.transactions[k].importHash]]

(* C15: the same STMTTRN field values written with closing tags and written *)
(* as flat blocks make parseOfx emit the same transactions (date,           *)
(* description, amountCents, type, importHash), or none in both dialects.   *)
C15_DialectsAgree ==
  (ppc \in {"parsed", "threw"} /\ file.kind = "ofx") =>
    Emitted(out) = Emitted(parseOfx(~file.closed, file.blocks, lenient))

(* ---- C16 ---------------------------------------------------------------- *)
(* MEMO, else NAME, else FITID, else the empty string *)
Fallback(fields) ==
  IF Has(fields, "MEMO") THEN fields["MEMO"]
  ELSE IF Has(fields, "NAME") THEN fields["NAME"]
  ELSE IF Has(fields, "FITID") THEN fields["FITID"]
  ELSE ""

(* C16: the description of every transaction emitted by parseOfx is its     *)
(* block's MEMO when the block has one, otherwise its NAME, otherwise its   *)
(* FITID, otherwise the empty string.                                       *)
C16_DescriptionFallback ==
  (ppc = "parsed" /\ file.kind = "ofx") =>
    \A k \in 1..Len(out.transactions) :
      \E n \in 1..Len(file.blocks) :
        out.transactions[k].description = Fallback(file.blocks[n])

(* ---- C17 ---------------------------------------------------------------- *)
(* the blocks whose NAME is neither balance marker *)
Unmarked(blocks) ==
  {n \in 1..Len(blocks) :
     Field(blocks[n], "NAME", "") \notin {"Saldo Anterior", "Saldo do dia"}}

(* C17: no transaction returned by parseOfx comes from a block whose NAME   *)
(* is "Saldo Anterior" or "Saldo do dia", in the closing-tag pass and in    *)
(* the flat pass: there are no more transactions than blocks not so named.  *)
C17_MarkersSkipped ==
  (ppc = "parsed" /\ file.kind = "ofx") =>
    Len(out.transactions) <= Cardinality(Unmarked(file.blocks))

(* ---- C18 ---------------------------------------------------------------- *)
(* DTPOSTED absent, or shorter than the 8 characters of YYYYMMDD *)
Incomplete(fields) == Len(Field(fields, "DTPOSTED", "")) < 8

(* C18: a block whose DTPOSTED is absent or has fewer than 8 characters is  *)
(* discarded and parsing continues: parseOfx returns, and returns what it   *)
(* returns for the file without that block.                                 *)
C18_IncompleteDateDiscarded ==
  (ppc \in {"parsed", "threw"} /\ file.kind = "ofx"
     /\ Incomplete(file.blocks[1])) =>
    /\ ppc = "parsed"
    /\ Emitted(out) = Emitted(parseOfx(file.closed, Tail(file.blocks), lenient))

(* ---- C19 ---------------------------------------------------------------- *)
(* the field texts of the data line of f, in order *)
TextsOf(f) == [k \in 1..Len(f.fields) |-> trim(f.fields[k].text)]

(* C19: for a line whose fields are each unquoted, wrapped in double quotes *)
(* or wrapped in single quotes, splitRow returns exactly the fields in      *)
(* order, trimmed and unwrapped: a delimiter inside quotes does not split,  *)
(* a doubled double quote is one literal quote, the fields after a quoted   *)
(* field are still split; and "1.112,00" is the amount 111200 cents.        *)
C19_TokenizerQuoting ==
  (ppc = "parsed" /\ file.kind = "csvtext" /\ file.fields # <<>>) =>
    /\ out.rows = <<TextsOf(file)>>
    /\ \A k \in 1..Len(out.transactions) :
         file.fields[3].text = "1.112,00" =>
           out.transactions[k].amountCents = Fin(111200)

(* ---- C20 ---------------------------------------------------------------- *)
(* date cells with day or month 00, naming no calendar date, or in neither *)
(* format                                                                  *)
RejectedCells ==
  {"00/00/0000", "01/00/2024", "31/02/2024", "15/13/2024", "29/02/2023",
   "1/3/2024", "amanha", ""}

(* C20: a CSV row whose date is DD/MM/YYYY with day or month 00, or is no   *)
(* real calendar date (month 13, 31/02/2024), or matches neither DD/MM/YYYY *)
(* nor a YYYY-MM-DD prefix, yields no transaction and no balance, and the   *)
(* rows after it are still processed.                                       *)
C20_DateRejection ==
  (ppc = "parsed" /\ file.kind = "csv" /\ file.rows[1][1] \in RejectedCells) =>
    /\ out.balances = <<>>
    /\ Len(out.transactions) = Len(file.rows) - 1
    /\ \A k \in 1..Len(out.transactions) :
         out.transactions[k].description = NextRow[2]

(* ---- C21 ---------------------------------------------------------------- *)
(* C21: parseAmountToCents gives 0 for a text that, without currency       *)
(* symbols, whitespace and one leading minus, does not start with a number; *)
(* otherwise 100 times the value, rounded, the grouping dots removed only   *)
(* from a text of the grouped Brazilian pattern, and negated exactly when   *)
(* there was a leading minus; so the amount of "-" followed by an unsigned  *)
(* text is the negation of the amount of the text.                          *)
C21_AmountParsing ==
  (ppc = "parsed" /\ file.kind = "amount") =>
    /\ out.cents = (IF file.sign = "-" THEN Neg(file.cents) ELSE file.cents)
    /\ file.sign = "" => out.negated = Neg(out.cents)

C21_Witness ==
  /\ ppc = "parsed" /\ file.kind = "amount"
  /\ file.raw = "R$ -1.234,56"
  /\ out.cents = Fin(-123456)

(* ---- C22 ---------------------------------------------------------------- *)
HexVal(c) == IndexOf("0123456789abcdef", c) - 1

(* the 16-bit value four hex digits denote *)
FromHex4(s) ==
  ((HexVal(Ch(s, 1)) * 16 + HexVal(Ch(s, 2))) * 16 + HexVal(Ch(s, 3))) * 16
  + HexVal(Ch(s, 4))

(* the 32-bit lane eight hex digits denote *)
FromHex8(s) == <<FromHex4(Sub(s, 1, 4)), FromHex4(Sub(s, 5, 8))>>

(* C22: the result of computeImportHash is exactly 16 characters of 0-9a-f, *)
(* the first 8 the lane h2 and the last 8 the lane h1, each padded with     *)
(* zeros on the left; and the same input gives the same result.             *)
C22_HashFormat ==
  (ppc = "parsed" /\ file.kind = "hash") =>
    /\ Len(out.hash) = 16
    /\ \A k \in 1..Len(out.hash) : HexVal(Ch(out.hash, k)) \in 0..15
    /\ FromHex8(Sub(out.hash, 1, 8)) = out.lanes.h2
    /\ FromHex8(Sub(out.hash, 9, 16)) = out.lanes.h1
    /\ out.hash = computeImportHash(file.date, file.description, file.amountCents)

C22_Witness ==
  /\ ppc = "parsed" /\ file.kind = "hash"
  /\ file.date = "2024-03-01" /\ file.description = "Mercado"
  /\ file.amountCents = Fin(7)
  /\ out.lanes.h2 = <<152, 56566>>
  /\ out.hash = "0098dcf6c242df7d"

(* ---------------------------------------------------------------------- *)
(* C23: once handleFileChange has acted, the page shows what the claim   *)
(* says for the outcome of the parse: a file without transactions leaves *)
(* the "none found" message, nothing staged and no confirm button; a     *)
(* file with transactions leaves them staged and no error; a throwing    *)
(* parse leaves the read-error message; and right after a file event the *)
(* previous result, error and staged transactions are gone.              *)
(* ---------------------------------------------------------------------- *)
C23_FileChangeOutcome ==
  page # NoPage =>
    /\ page.last.step \in {"chosen", "cleared"} =>
         /\ page.parseError = ""
         /\ page.transactions = <<>>
         /\ page.result = NoResult
    /\ page.last.step = "parsed" =>
         IF ~page.last.parsed.ok
           THEN page.parseError = ReadErrorMessage
         ELSE IF Len(page.last.parsed.hs) = 0
           THEN /\ page.parseError = NoneFoundMessage
                /\ page.transactions = <<>>
                /\ ~ConfirmEnabled(page)
         ELSE /\ page.transactions = ItemsOf("ledgerEntries", page.last.parsed.hs)
              /\ page.parseError = ""

(* ---------------------------------------------------------------------- *)
(* C29: handleImport starts an import only with an account selected and  *)
(* transactions staged; the importing flag is set exactly while the      *)
(* import is pending; right after a successful import the result counts  *)
(* are shown and the staged transactions and the file name are empty;    *)
(* right after a failed one the import error is set, no result is shown  *)
(* and the staged transactions are the ones that were staged before.     *)
(* ---------------------------------------------------------------------- *)
C29_ConfirmImport ==
  page # NoPage =>
    /\ page.imp.pending => page.imp.accountId # "" /\ Len(page.imp.transactions) > 0
    /\ page.last.step = "importDeclined" =>
         /\ page.accountId = "" \/ Len(page.transactions) = 0
         /\ ~page.imp.pending
    /\ page.importing <=> page.imp.pending
    /\ page.last.step = "importResolved" =>
         /\ page.result = page.last.res
         /\ page.result.imported >= 0 /\ page.result.skipped >= 0
         /\ page.transactions = <<>>
         /\ page.fileName = ""
         /\ ~page.importing
    /\ page.last.step = "importRejected" =>
         /\ page.parseError = ImportErrorMessage
         /\ page.result = NoResult
         /\ page.transactions = page.last.staged
         /\ ~page.importing

(* a second import of an overlapping statement succeeded: one written, one skipped *)
C29_Witness ==
  /\ page # NoPage
  /\ page.last.step = "importResolved"
  /\ page.result = [imported |-> 1, skipped |-> 1]
  /\ Len(store[ledgerCol("u1")]) = 2

(* ---------------------------------------------------------------------- *)
(* C24: when at least one STMTTRN block of an OFX statement carries its  *)
(* closing tag and yields a transaction, the result is what the blocks   *)
(* with a closing tag yield by themselves, in their order: the blocks    *)
(* without a closing tag contribute nothing.                             *)
(* ---------------------------------------------------------------------- *)
ClosedOnly(f) ==
  [n \in 1..Cardinality({k \in 1..Len(f.blocks) : f.marks[k]}) |->
     f.blocks[CHOOSE k \in 1..Len(f.blocks) :
                /\ f.marks[k]
                /\ Cardinality({j \in 1..k : f.marks[j]}) = n]]

C24_UnclosedContributeNothing ==
  (file.kind = "ofxMarked" /\ ppc = "parsed") =>
    Bind(ofxPass(ClosedOnly(file), lenient, FALSE), LAMBDA alone :
      (~alone.threw /\ Len(alone.transactions) > 0) =>
         out.transactions = alone.transactions)

(* ---------------------------------------------------------------------- *)
(* C25: of the rows of a CSV statement that have a valid date and are    *)
(* neither balance nor skip rows, exactly those with a zero amount and   *)
(* an empty description are discarded; the others yield one transaction  *)
(* each, in row order, with amountCents the absolute value of the signed *)
(* amount: the value cell when it is not empty, else credit - debit.     *)
(* ---------------------------------------------------------------------- *)
CellOrZero(hdrIdx, cols) ==
  IF hdrIdx # -1 /\ Cell(cols, hdrIdx) # "" THEN parseAmountToCents(Cell(cols, hdrIdx))
  ELSE Fin(0)

SignedOf(hdr, cols) ==
  IF hdr.valueIdx # -1 /\ Cell(cols, hdr.valueIdx) # ""
  THEN parseAmountToCents(Cell(cols, hdr.valueIdx))
  ELSE Minus(CellOrZero(hdr.creditIdx, cols), CellOrZero(hdr.debitIdx, cols))

IsCandidate(hdr, cols, lenientEngine) ==
  /\ parseDate(Cell(cols, hdr.dateIdx), lenientEngine) # NoDate
  /\ ~SKIP_SALDO_ANTERIOR(Cell(cols, hdr.descIdx))
  /\ ~SKIP_SALDO_DO_DIA(Cell(cols, hdr.descIdx))
  /\ ~IS_SALDO(Cell(cols, hdr.descIdx))

KeptRows(f, lenientEngine) ==
  SelectSeq(f.rows, LAMBDA cols :
    /\ IsCandidate(f.hdr, cols, lenientEngine)
    /\ ~(IsZero(SignedOf(f.hdr, cols)) /\ Cell(cols, f.hdr.descIdx) = ""))

C25_TransactionCandidates ==
  (file.kind = "csv" /\ ppc = "parsed") =>
    Bind(KeptRows(file, lenient), LAMBDA kept :
      /\ Len(out.transactions) = Len(kept)
      /\ \A n \in 1..Len(kept) :
           /\ out.transactions[n].description = Cell(kept[n], file.hdr.descIdx)
           /\ out.transactions[n].date = parseDate(Cell(kept[n], file.hdr.dateIdx), lenient)
           /\ out.transactions[n].amountCents = Abs(SignedOf(file.hdr, kept[n])))

(* no description, an empty value cell, debit 10,00 and credit 25,50: kept, 1550 cents *)
C25_Witness ==
  /\ file.kind = "csv" /\ ppc = "parsed"
  /\ file.hdr.valueIdx # -1 /\ file.hdr.debitIdx # -1 /\ file.hdr.creditIdx # -1
  /\ file.rows = << <<"01/03/2024", "", "", "10,00", "25,50", "">> >>
  /\ Len(out.transactions) = 1
  /\ out.transactions[1].amountCents = Fin(1550)

(* ---------------------------------------------------------------------- *)
(* C26: the balances parseCsv returns are, in row order, one per         *)
(* "S A L D O" row with a valid date; balanceCents is the parsed value   *)
(* cell when it is not empty, else the parsed credit cell when it is not *)
(* empty, else 0, with its sign; the import hash is taken of the date as *)
(* YYYY-MM-DD, "SALDO" and balanceCents.  parseOfx returns no balances.  *)
(* ---------------------------------------------------------------------- *)
BalanceRows(f, lenientEngine) ==
  SelectSeq(f.rows, LAMBDA cols :
    /\ parseDate(Cell(cols, f.hdr.dateIdx), lenientEngine) # NoDate
    /\ ~SKIP_SALDO_ANTERIOR(Cell(cols, f.hdr.descIdx))
    /\ ~SKIP_SALDO_DO_DIA(Cell(cols, f.hdr.descIdx))
    /\ IS_SALDO(Cell(cols, f.hdr.descIdx)))

BalanceOf(hdr, cols) ==
  IF hdr.valueIdx # -1 /\ Cell(cols, hdr.valueIdx) # ""
  THEN parseAmountToCents(Cell(cols, hdr.valueIdx))
  ELSE CellOrZero(hdr.creditIdx, cols)

C26_BalanceRecords ==
  /\ (file.kind \in {"ofx", "ofxMarked"} /\ ppc \in {"parsed", "threw"}) =>
       out.balances = <<>>
  /\ (file.kind = "csv" /\ ppc = "parsed") =>
       Bind(BalanceRows(file, lenient), LAMBDA rows :
         /\ Len(out.balances) = Len(rows)
         /\ \A n \in 1..Len(rows) :
              Bind(parseDate(Cell(rows[n], file.hdr.dateIdx), lenient), LAMBDA date :
              Bind(BalanceOf(file.hdr, rows[n]), LAMBDA balanceCents :
                /\ out.balances[n].date = date
                /\ out.balances[n].balanceCents = balanceCents
                /\ out.balances[n].importHash =
                     hashText(dateStr(date), "SALDO", balanceCents))))

(* a negative balance in the value column, next to a debit and a credit cell *)
C26_Witness ==
  /\ file.kind = "csv" /\ ppc = "parsed"
  /\ file.hdr.valueIdx # -1 /\ file.hdr.debitIdx # -1 /\ file.hdr.creditIdx # -1
  /\ file.rows = << <<"01/03/2024", "S A L D O", "-150,00", "10,00", "25,50", "">> >>
  /\ Len(out.balances) = 1
  /\ out.balances[1].balanceCents = Fin(-15000)
  /\ out.balances[1].importHash = "2024-03-01|SALDO|-15000"
  /\ out.transactions = <<>>

(* ---------------------------------------------------------------------- *)
(* C27: importLedgerEntries only adds.  A step that changes a ledger     *)
(* collection keeps every document it held, in place, and appends only   *)
(* documents that carry the userId and accountId of a call in its write  *)
(* phase and the type, amountCents, description and importHash of a      *)
(* transaction of that call whose hash is not in its already-seen set;   *)
(* a call with an empty list returns {imported: 0, skipped: 0} having    *)
(* issued no store call.                                                 *)
(* ---------------------------------------------------------------------- *)
CarriedBy(d, p) ==
  /\ d.userId = args[p].userId
  /\ d.accountId = args[p].accountId
  /\ \E k \in 1..Len(args[p].transactions) :
       Bind(args[p].transactions[k], LAMBDA t :
         /\ t.importHash \notin existingHashes[p]
         /\ d.type = t.type
         /\ d.amountCents = t.amountCents
         /\ d.description = t.description
         /\ d.importHash = t.importHash)

C27_Step ==
  \A u \in Users :
    Bind(ledgerCol(u), LAMBDA c :
      store'[c] # store[c] =>
        /\ Len(store'[c]) > Len(store[c])
        /\ SubSeq(store'[c], 1, Len(store[c])) = store[c]
        /\ \E p \in Procs :
             /\ pc[p] = "write"
             /\ args[p].fn = "importLedgerEntries"
             /\ ledgerCol(args[p].userId) = c
             /\ \A k \in (Len(store[c]) + 1)..Len(store'[c]) : CarriedBy(store'[c][k], p))

C27_State ==
  \A p \in Procs :
    (args[p].fn = "importLedgerEntries" /\ Len(args[p].transactions) = 0) =>
      /\ calls[p] = <<>>
      /\ pc[p] \in {"idle", "done"}
      /\ pc[p] = "done" => result[p] = Res(0, 0)
      /\ \A k \in 1..Len(hist[p]) :
           hist[p][k].status = "done" /\ hist[p][k].result = Res(0, 0) /\ hist[p][k].written = 0

C27_ImportOnlyAdds == [](C27_State) /\ [][C27_Step]_vars

(* an import added one record to a collection that held the record of *)
(* another account, which is still there                               *)
C27_Witness ==
  /\ Len(store[ledgerCol("u1")]) = 2
  /\ hist["p1"] # <<>> /\ hist["p1"][1].written = 1
  /\ store[ledgerCol("u1")][1].accountId # store[ledgerCol("u1")][2].accountId
  /\ pc["p1"] = "done" /\ pc["p2"] = "done"

CountGenerated(docs, ruleId, year, month) ==
  Cardinality({n \in 1..Len(docs) :
                 /\ "recurringRuleId" \in DOMAIN docs[n]
                 /\ docs[n].recurringRuleId = ruleId
                 /\ docs[n].date.y = year /\ docs[n].date.m = month})

ExpectedDay(rule, year, month) ==
  Bind(IF "dayOfMonth" \in DOMAIN rule THEN rule.dayOfMonth ELSE 1, LAMBDA day :
    IF day > DaysInMonth(year, month) THEN DaysInMonth(year, month) ELSE day)

C30_GenerateEntries ==
  recur # NoRecur =>
    Bind(store[ledgerCol("u1")], LAMBDA docs :
    Bind(SubSeq(store[ledgerCol("u1")], Len(recur.atStart) + 1, Len(store[ledgerCol("u1")])),
         LAMBDA new :
      /\ Len(docs) >= Len(recur.atStart)
      /\ SubSeq(docs, 1, Len(recur.atStart)) = recur.atStart
      /\ \A n \in 1..Len(new) :
           \E j \in 1..Len(recur.rules) :
             /\ recur.rules[j].active
             /\ CountGenerated(recur.atStart, recur.rules[j].id, recur.year, recur.month) = 0
             /\ new[n].recurringRuleId = recur.rules[j].id
             /\ new[n].date = [y |-> recur.year, m |-> recur.month,
                               d |-> ExpectedDay(recur.rules[j], recur.year, recur.month)]
      /\ \A j \in 1..Len(recur.rules) :
           /\ Cardinality({n \in 1..Len(new) :
                             new[n].recurringRuleId = recur.rules[j].id}) <= 1
           /\ (recur.pc = "done" /\ recur.rules[j].active) =>
                CountGenerated(docs, recur.rules[j].id, recur.year, recur.month) = 1
           /\ ~recur.rules[j].active =>
                CountGenerated(docs, recur.rules[j].id, recur.year, recur.month)
                  = CountGenerated(recur.initial, recur.rules[j].id, recur.year, recur.month)))

(* February 2024, a rule of day 31 with an entry of January: two invocations *)
(* returned and the ledger holds the January entry and one of 29 February     *)
C30_Witness ==
  /\ recur # NoRecur
  /\ recur.completed = 2 /\ recur.pc = "done"
  /\ recur.year = 2024 /\ recur.month = 2
  /\ Len(recur.rules) = 1 /\ recur.rules[1].active
  /\ "dayOfMonth" \in DOMAIN recur.rules[1] /\ recur.rules[1].dayOfMonth = 31
  /\ Len(store[ledgerCol("u1")]) = 2
  /\ store[ledgerCol("u1")][1].date = [y |-> 2024, m |-> 1, d |-> 28]
  /\ store[ledgerCol("u1")][2].date = [y |-> 2024, m |-> 2, d |-> 29]
  /\ store[ledgerCol("u1")][2].recurringRuleId = "r1"

====
